---- MODULE Spec2Model ----
(***************************************************************************)
(* A model of the Alasco client library: the paginated, chunked fetch of   *)
(* data_fetcher.py, the flattening of JSON pages and the consolidation of  *)
(* the flattened tables of data_transformer.py, and split_list of utils.py.*)
(*                                                                         *)
(* Strings of the program that are built or taken apart (a filter value in *)
(* a URL) are sequences of tokens. Column names are sequences of path      *)
(* segments (<<"attributes", "name">> is the column attributes.name).      *)
(* A table (pandas DataFrame) is [cols, rows]: a set of column names and a *)
(* sequence of rows, each row a function from cols to cell values.         *)
(***************************************************************************)
EXTENDS Integers, Sequences, FiniteSets, TLC

VARIABLES
    \* ---- the remote API and the arguments of DataFetcher.get_df
    db,          \* server: the rows of the resource, db[i] the filtered attribute of row i
    filters,     \* argument filters of get_df
    chunk_size,  \* argument chunk_size of get_df
    \* ---- the method of DataFetcher that is called
    entry,       \* its name
    args,        \* its arguments, for get_contracts and get_*_documents
    \* ---- the call of get_df in progress
    base_url,    \* get_df: url
    pc,          \* position in get_df / fetch_and_convert / get_json
    chunks,      \* the filters of the fetch_and_convert calls to make, in order
    index,       \* number of the chunk being fetched
    cur,         \* get_json: the URL of the next GET
    first,       \* get_json: the URL of the first GET of the top-level call
    stack,       \* get_json: response_json of every active (recursive) call
    ret,         \* get_json: list_responses_json being returned
    dfs,         \* get_df: the tables of the chunks fetched so far
    requests,    \* every GET issued, in order
    calls,       \* number of fetch_and_convert calls of the get_df call in progress
    callStart,   \* Len(requests) when the current top-level get_json call began
    result,      \* the table the get_df call in progress returned
    err,         \* the exception get_df raised
    failed,      \* the number of the GET that failed, 0 while none has
    df_calls,    \* number of get_df calls made
    again,       \* get_contractors: a second get_df call follows the one in progress
    split_out,   \* what a direct call of Utils.split_list gave
    \* ---- DataFetcher.get_all_df
    all_db,      \* server: the rows of every resource
    all_args,    \* its arguments property_name and project_name
    all_pc,      \* position in get_all_df
    all_dfs,     \* the tables fetched so far, by key
    all_err,     \* the exception get_all_df raised
    \* ---- DataTransformer: the arguments and the outcomes of its calls
    arg_dfs,            \* consolidate_core_DataFrames: dfs, a mapping from keys to tables
    arg_core,           \* consolidate_invoices / change_orders_DataFrame: df_core
    arg_invoices,       \* consolidate_invoices_DataFrame: df_invoices
    arg_change_orders,  \* consolidate_change_orders_DataFrame: df_change_orders
    arg_pages,          \* convert_list_JSON_to_DataFrame: listJSON
    arg_page,           \* convert_JSON_to_DataFrame: JSONdata
    core_out,           \* outcome of consolidate_core_DataFrames
    invoices_out,       \* outcome of consolidate_invoices_DataFrame
    change_orders_out,  \* outcome of consolidate_change_orders_DataFrame
    flat_out,           \* outcome of convert_list_JSON_to_DataFrame
    page_out,           \* outcome of convert_JSON_to_DataFrame
    page_again,         \* outcome of a second convert_JSON_to_DataFrame of the same page
    self_verbose,       \* DataTransformer: self.verbose
    \* ---- DocumentDownloader: the arguments and the outcome of a _name_* call
    arg_row,            \* row: the columns of the row the name is made from
    arg_document_type,  \* document_type
    named,              \* which of _name_contract, _name_invoice, _name_change_order ran
    name_out,           \* outcome of the call
    \* ---- DocumentDownloader.download_documents
    dl_links,           \* document_download_links
    dl_names,           \* document_names
    dl_path,            \* download_path, Null for None
    dl_pc,              \* position in download_documents
    dl_i,               \* number of the document the loop is at
    dl_requests,        \* the links requested, in order
    dl_responses,       \* what each request brought: a status code, or "error"
    dl_files,           \* the files written, in order
    dl_err,             \* the exception download_documents raised
    \* ---- DocumentUploader: a call of upload_contract, _change_order or _invoice
    up_kind,            \* which of the three is called
    up_kwargs,          \* kwargs
    up_pc,              \* position in the call
    up_reads,           \* the files read, in order
    up_posts,           \* the POST requests issued, in order
    up_err,             \* the exception the call raised
    \* ---- DocumentDownloader: a call of download_contracts, download_invoices,
    \* ---- download_change_orders or batch_download_documents
    bd_entry,           \* which of the four is called
    bd_args,            \* its arguments
    bd_pc,              \* position in the call
    bd_err,             \* the exception the call raised
    bd_project_names,   \* batch_download_documents: project_names
    bd_frames,          \* batch_download_documents: df_contracts, df_invoices, df_change_orders
    bd_core_path,       \* batch_download_documents: core_path
    bd_download_path,   \* batch_download_documents: download_path
    bd_i,               \* batch_download_documents: number of the project the loop is at
    self_download_path  \* DocumentDownloader: self.download_path

vars == <<entry, args, base_url, db, filters, chunk_size, pc, chunks, index, cur, first, stack,
          ret, dfs, requests, calls, callStart, result, err, failed, df_calls, again,
          split_out, all_db, all_args, all_pc, all_dfs, all_err,
          arg_dfs, arg_core, arg_invoices, arg_change_orders, arg_pages, arg_page,
          core_out, invoices_out, change_orders_out, flat_out, page_out, page_again,
          self_verbose,
          arg_row, arg_document_type, named, name_out,
          dl_links, dl_names, dl_path, dl_pc, dl_i, dl_requests, dl_responses, dl_files,
          dl_err, up_kind, up_kwargs, up_pc, up_reads, up_posts, up_err,
          bd_entry, bd_args, bd_pc, bd_err, bd_project_names, bd_frames, bd_core_path,
          bd_download_path, bd_i, self_download_path>>

fetchVars == <<entry, args, base_url, db, filters, chunk_size, pc, chunks, index, cur, first,
               stack, ret, dfs, requests, calls, callStart, result, err, failed, df_calls,
               again, split_out, all_db, all_args, all_pc, all_dfs, all_err>>

allVars == <<all_db, all_args, all_pc, all_dfs, all_err>>

tfVars == <<arg_dfs, arg_core, arg_invoices, arg_change_orders, arg_pages, arg_page,
            core_out, invoices_out, change_orders_out, flat_out, page_out, page_again,
            self_verbose>>

nameVars == <<arg_row, arg_document_type, named, name_out>>

dlVars == <<dl_links, dl_names, dl_path, dl_pc, dl_i, dl_requests, dl_responses,
            dl_files, dl_err>>

upVars == <<up_kind, up_kwargs, up_pc, up_reads, up_posts, up_err>>

batchVars == <<bd_entry, bd_args, bd_pc, bd_err, bd_project_names, bd_frames, bd_core_path,
              bd_download_path, bd_i, self_download_path>>

docVars == <<nameVars, dlVars, upVars, batchVars>>

(***************************************************************************)
(* Bounds of the model                                                     *)
(***************************************************************************)
MaxLen == 3        \* longest filter value list
MaxRows == 2       \* most rows of an input table of the consolidation
MaxMissing == 2    \* most keys and columns missing from the input of the consolidation
MaxPages == 2      \* most pages given to convert_list_JSON_to_DataFrame
MaxPageRows == 2   \* most rows of the data of such a page
MaxName == 2       \* longest contractor name drawn from NameChars
MaxDocs == 3       \* most documents of a download_documents call
MaxDb == 3         \* most rows of the resource on the server
MaxChunk == 2      \* largest chunk_size
PageSize == 1      \* rows the server puts in one page

Null == "<null>"   \* None / NaN
None == "<none>"   \* no value: no exception, no result yet, no filter

Min(a, b) == IF a < b THEN a ELSE b
Range(s) == {s[i] : i \in 1..Len(s)}
SeqsUpTo(S, n) == UNION {[1..k -> S] : k \in 0..n}

RECURSIVE Flat(_)
\* the concatenation of a sequence of sequences
Flat(ss) == IF ss = <<>> THEN <<>> ELSE Head(ss) \o Flat(Tail(ss))

(***************************************************************************)
(* Tables                                                                  *)
(***************************************************************************)
EmptyTable == [cols |-> {}, rows |-> <<>>]

\* DataFrame.empty: an axis of length 0
IsEmpty(df) == df.rows = <<>> \/ df.cols = {}

\* a row widened to the columns cs, NaN where it has no value
Widen(row, cs) == [c \in cs |-> IF c \in DOMAIN row THEN row[c] ELSE Null]

\* a row cut down to the columns cs
Project(row, cs) == [c \in cs |-> row[c]]

\* mutant of concat: join="inner", only the columns every table has
concat_inner(tables) ==
    LET cs == {c \in UNION {tables[i].cols : i \in 1..Len(tables)} :
                 \A i \in 1..Len(tables) : c \in tables[i].cols}
        all == Flat([i \in 1..Len(tables) |-> tables[i].rows])
    IN [cols |-> cs, rows |-> [i \in 1..Len(all) |-> Project(all[i], cs)]]

\* pd.concat(dfs, ignore_index=True): rows in order, over the union of the columns
concat(tables) ==
    LET cs == UNION {tables[i].cols : i \in 1..Len(tables)}
        all == Flat([i \in 1..Len(tables) |-> tables[i].rows])
    IN [cols |-> cs, rows |-> [i \in 1..Len(all) |-> Widen(all[i], cs)]]

\* df.dropna(axis=1, how="all"): drop the columns that hold only NaN
dropna_columns(df) ==
    LET keep == {c \in df.cols : \E i \in 1..Len(df.rows) : df.rows[i][c] # Null}
    IN [cols |-> keep, rows |-> [i \in 1..Len(df.rows) |-> Project(df.rows[i], keep)]]

(***************************************************************************)
(* DataTransformer: flattening (data_transformer.py)                       *)
(***************************************************************************)
\* name.split("attributes.")[-1]: what follows the last "attributes." of a name
strip_attributes(name) ==
    IF \E i \in 1..(Len(name) - 1) : name[i] = "attributes"
    THEN LET i == CHOOSE k \in 1..(Len(name) - 1) :
                      /\ name[k] = "attributes"
                      /\ \A j \in (k + 1)..(Len(name) - 1) : name[j] # "attributes"
         IN SubSeq(name, i + 1, Len(name))
    ELSE name

\* pd.json_normalize(data): one row per element, over the union of their keys
json_normalize(data) ==
    LET cs == UNION {DOMAIN data[i] : i \in 1..Len(data)}
    IN [cols |-> cs, rows |-> [i \in 1..Len(data) |-> Widen(data[i], cs)]]

\* df.rename(mapper, axis=1): mapper is a function from old names to new ones;
\* a column it does not name keeps its name
rename(df, mapper) ==
    LET new(c) == IF c \in DOMAIN mapper THEN mapper[c] ELSE c
        cs == {new(c) : c \in df.cols}
    IN [cols |-> cs,
        rows |-> [i \in 1..Len(df.rows) |->
                    [c \in cs |-> df.rows[i][CHOOSE o \in df.cols : new(o) = c]]]]

\* an exception: its class and its message, a sequence of the pieces of text the
\* message is put together from
Error(type, message) == [type |-> type, message |-> message]
NoError == Error(None, <<>>)

\* the outcome of a call: the exception raised, or the table returned
Raise(type, message) == [err |-> Error(type, message), df |-> EmptyTable]
Return(df) == [err |-> NoError, df |-> df]
NotCalled == [err |-> Error("not called", <<>>), df |-> EmptyTable]
NoPage == [none |-> TRUE]   \* no page is given
Returned(out) == out.err = NoError
Raised(out) == out.err.type \notin {None, "not called"}

\* mutant of convert_JSON_to_DataFrame: a page without data counts as an empty one
convert_JSON_to_DataFrame_lenient(JSONdata) ==
    IF "data" \notin DOMAIN JSONdata
    THEN Return(EmptyTable)
    ELSE LET df == json_normalize(JSONdata["data"])
             NameDict == [name \in df.cols |-> strip_attributes(name)]
         IN Return(rename(df, NameDict))

\* DataTransformer.convert_JSON_to_DataFrame
convert_JSON_to_DataFrame(JSONdata) ==
    IF "data" \notin DOMAIN JSONdata
    THEN Raise("KeyError", <<"'data' key not found in the JSON response">>)
    ELSE LET df == json_normalize(JSONdata["data"])
             NameDict == [name \in df.cols |-> strip_attributes(name)]
         IN Return(rename(df, NameDict))

\* mutant of convert_list_JSON_to_DataFrame: pd.concat is called whatever the number
\* of tables left, and raises ValueError when there is none
convert_list_JSON_to_DataFrame_concat(listJSON) ==
    LET conv == [i \in 1..Len(listJSON) |-> convert_JSON_to_DataFrame(listJSON[i])]
        kept == SelectSeq(conv, LAMBDA r : ~IsEmpty(r.df))
        tables == [i \in 1..Len(kept) |-> dropna_columns(kept[i].df)]
    IN IF \E i \in 1..Len(conv) : conv[i].err # NoError
       THEN Raise("KeyError", <<"'data' key not found in the JSON response">>)
       ELSE IF Len(tables) >= 1 THEN Return(concat(tables))
       ELSE Raise("ValueError", <<"No objects to concatenate">>)

\* DataTransformer.convert_list_JSON_to_DataFrame
convert_list_JSON_to_DataFrame(listJSON) ==
    LET conv == [i \in 1..Len(listJSON) |-> convert_JSON_to_DataFrame(listJSON[i])]
        kept == SelectSeq(conv, LAMBDA r : ~IsEmpty(r.df))
        tables == [i \in 1..Len(kept) |-> dropna_columns(kept[i].df)]
    IN IF \E i \in 1..Len(conv) : conv[i].err # NoError
       THEN Raise("KeyError", <<"'data' key not found in the JSON response">>)
       ELSE IF Len(tables) > 1 THEN Return(concat(tables))
       ELSE IF Len(tables) = 1 THEN Return(tables[1])
       ELSE Return(EmptyTable)

(***************************************************************************)
(* DocumentDownloader: file names (document_downloader.py)                 *)
(***************************************************************************)
\* a string is the sequence of its characters; NoString is None / NaN in its place
NoString == <<Null>>
NoRow == [none |-> TRUE]    \* no row is given

LowerCase ==
    {"a", "b", "c", "d", "e", "f", "g", "h", "i", "j", "k", "l", "m",
     "n", "o", "p", "q", "r", "s", "t", "u", "v", "w", "x", "y", "z"}
UpperCase ==
    {"A", "B", "C", "D", "E", "F", "G", "H", "I", "J", "K", "L", "M",
     "N", "O", "P", "Q", "R", "S", "T", "U", "V", "W", "X", "Y", "Z"}
Digits == {"0", "1", "2", "3", "4", "5", "6", "7", "8", "9"}

\* the characters the pattern [^a-zA-Z0-9_\-() ] does not match
KeptChars == LowerCase \cup UpperCase \cup Digits \cup {"_", "-", "(", ")", " "}

\* mutant of cleaned: the pattern [^a-zA-Z0-9_\-()], which matches the space too
cleaned_no_space(string) == SelectSeq(string, LAMBDA ch : ch \in KeptChars \ {" "})

\* re.sub(r'[^a-zA-Z0-9_\-() ]', '', string)
cleaned(string) == SelectSeq(string, LAMBDA ch : ch \in KeptChars)

CONTRACT == <<"C", "O", "N", "T", "R", "A", "C", "T">>
INVOICE == <<"I", "N", "V", "O", "I", "C", "E">>
CHANGE_ORDER == <<"C", "H", "A", "N", "G", "E", "-", "O", "R", "D", "E", "R">>
PDF == <<".", "p", "d", "f">>

\* the outcome of a _name_* call: the exception raised, or the name returned
NameRaise(type) == [err |-> Error(type, <<>>), name |-> <<>>]
NameReturn(name) == [err |-> NoError, name |-> name]
NotNamed == [err |-> Error("not called", <<>>), name |-> <<>>]

\* re.sub raises TypeError for an argument that is no string
re_sub_fails(strings) == \E i \in 1..Len(strings) : strings[i] = NoString

\* DocumentDownloader._name_contract
name_contract(row, document_type) ==
    LET type == IF document_type = NoString THEN CONTRACT ELSE document_type
    IN IF re_sub_fails(<<row.contractor_name, row.contract_number>>)
       THEN NameRaise("TypeError")
       ELSE NameReturn(cleaned(row.contractor_name) \o <<"_">> \o cleaned(row.contract_number)
                         \o <<"_">> \o type \o PDF)

\* DocumentDownloader._name_invoice
name_invoice(row, document_type) ==
    LET type == IF document_type = NoString THEN INVOICE ELSE document_type
    IN IF re_sub_fails(<<row.contract_number, row.contractor_name, row.invoice_number>>)
       THEN NameRaise("TypeError")
       ELSE NameReturn(cleaned(row.contractor_name) \o <<"_">> \o cleaned(row.contract_number)
                         \o <<"_">> \o cleaned(row.invoice_number) \o <<"_">> \o type \o PDF)

\* DocumentDownloader._name_change_order
name_change_order(row, document_type) ==
    LET type == IF document_type = NoString THEN CHANGE_ORDER ELSE document_type
    IN IF re_sub_fails(<<row.contractor_name, row.contract_number,
                         row.change_order_identifier>>)
       THEN NameRaise("TypeError")
       ELSE NameReturn(cleaned(row.contractor_name) \o <<"_">> \o cleaned(row.contract_number)
                         \o <<"_">> \o type \o <<"_">>
                         \o cleaned(row.change_order_identifier) \o PDF)

NamesIdle ==
    /\ arg_row = NoRow
    /\ arg_document_type = NoString
    /\ named = "none"
    /\ name_out = NotNamed

(***************************************************************************)
(* DocumentDownloader.download_documents (document_downloader.py)          *)
(***************************************************************************)
SELF_DOWNLOAD_PATH == "outputs"    \* self.download_path

\* os.path.join(download_path, name)
path_join(download_path, name) == <<download_path, "/", name>>

DownloadIdle ==
    /\ dl_links = <<>>
    /\ dl_names = <<>>
    /\ dl_path = Null
    /\ dl_pc = "idle"
    /\ dl_i = 1
    /\ dl_requests = <<>>
    /\ dl_responses = <<>>
    /\ dl_files = <<>>
    /\ dl_err = None

\* lines 72-83: the lists must be as long as each other; the path defaults to
\* self.download_path
download_documents ==
    /\ dl_pc = "download_documents"
    /\ IF Len(dl_links) # Len(dl_names)
       THEN /\ dl_pc' = "raised"
            /\ dl_err' = "IndexError"
            /\ UNCHANGED dl_path
       ELSE /\ dl_pc' = IF dl_links = <<>> THEN "done" ELSE "loop"
            /\ dl_path' = IF dl_path = Null THEN SELF_DOWNLOAD_PATH ELSE dl_path
            /\ UNCHANGED dl_err
    /\ UNCHANGED <<fetchVars, tfVars, batchVars,
                   nameVars, upVars, dl_links, dl_names, dl_i, dl_requests,
                   dl_responses, dl_files>>

\* lines 90-96: the GET answers 200 and the content is written under the name
download_written ==
    /\ dl_pc = "loop"
    /\ dl_requests' = Append(dl_requests, dl_links[dl_i])
    /\ dl_responses' = Append(dl_responses, "200")
    /\ dl_files' = Append(dl_files, path_join(dl_path, dl_names[dl_i]))
    /\ dl_i' = dl_i + 1
    /\ dl_pc' = IF dl_i < Len(dl_links) THEN "loop" ELSE "done"
    /\ UNCHANGED <<fetchVars, tfVars, batchVars,
                   nameVars, upVars, dl_links, dl_names, dl_path, dl_err>>

\* lines 90-98: the GET answers another status; the failure is printed
download_failed ==
    /\ dl_pc = "loop"
    /\ \E status \in {"404", "500"} :
          dl_responses' = Append(dl_responses, status)
    /\ dl_requests' = Append(dl_requests, dl_links[dl_i])
    /\ dl_i' = dl_i + 1
    /\ dl_pc' = IF dl_i < Len(dl_links) THEN "loop" ELSE "done"
    /\ UNCHANGED <<fetchVars, tfVars, batchVars,
                   nameVars, upVars, dl_links, dl_names, dl_path, dl_files,
                   dl_err>>

\* line 90: requests.get raises (no connection, timeout); nothing catches it
download_raises ==
    /\ dl_pc = "loop"
    /\ dl_requests' = Append(dl_requests, dl_links[dl_i])
    /\ dl_responses' = Append(dl_responses, "error")
    /\ dl_pc' = "raised"
    /\ dl_err' = "RequestException"
    /\ UNCHANGED <<fetchVars, tfVars, batchVars,
                   nameVars, upVars, dl_links, dl_names, dl_path, dl_i,
                   dl_files>>

(***************************************************************************)
(* DocumentUploader (document_uploader.py)                                 *)
(***************************************************************************)
document_types_contract == {"CONTRACT", "ATTACHMENT"}
document_types_change_order ==
    {"ATTACHMENT", "AUDITED_CHANGE_ORDER", "CHANGE_ORDER", "CHANGE_ORDER_OFFER",
     "COVERSHEET_EXTERNAL", "EXTERNAL_CORRESPONDENCE", "INTERNAL_CORRESPONDENCE", "OTHER",
     "PLANS", "PROTOCOL", "VALUATIONS"}
document_types_invoice ==
    {"ATTACHMENT", "AUDITED_INVOICE", "COVERSHEET_EXTERNAL", "EXTERNAL_CORRESPONDENCE",
     "INTERNAL_CORRESPONDENCE", "INVOICE", "OTHER", "PAYMENT_CERTIFICATE", "PLANS",
     "PROTOCOL", "REVISED_INVOICE", "VALUATIONS"}

\* the document types a kind of upload accepts
document_types(kind) ==
    IF kind = "contract" THEN document_types_contract
    ELSE IF kind = "change_order" THEN document_types_change_order
    ELSE document_types_invoice

\* the keyword that carries the id of the resource
id_key(kind) ==
    IF kind = "contract" THEN "contract_id"
    ELSE IF kind = "change_order" THEN "change_order_id"
    ELSE "invoice_id"

\* kwargs.get(key): None for a key that is not given
kwargs_get(kwargs, key) == IF key \in DOMAIN kwargs THEN kwargs[key] ELSE Null

\* the truth value of a str or None
truthy(value) == value \notin {Null, ""}

\* mutant of all_given: any() in the place of all()
any_given(kwargs, kind) ==
    \E key \in {"document_type", "file_path", "file_name", id_key(kind)} :
        truthy(kwargs_get(kwargs, key))

\* all([document_type, file_path, file_name, <id>])
all_given(kwargs, kind) ==
    \A key \in {"document_type", "file_path", "file_name", id_key(kind)} :
        truthy(kwargs_get(kwargs, key))

\* self.url_upload_<kind>.format(<id>=...)
url_upload(kind, id) == <<"https://api.alasco.de/v1/", kind, "s/", id, "/documents/">>

UploadIdle ==
    /\ up_kind = "none"
    /\ up_kwargs = <<>>
    /\ up_pc = "idle"
    /\ up_reads = <<>>
    /\ up_posts = <<>>
    /\ up_err = None

\* upload_contract, upload_change_order, upload_invoice: the parameters are checked
upload ==
    /\ up_pc = "upload"
    /\ IF ~all_given(up_kwargs, up_kind)
          \/ kwargs_get(up_kwargs, "document_type") \notin document_types(up_kind)
       THEN up_pc' = "raised" /\ up_err' = "ValueError"
       ELSE up_pc' = "file_to_bytes" /\ UNCHANGED up_err
    /\ UNCHANGED <<fetchVars, tfVars, batchVars,
                   nameVars, dlVars, up_kind, up_kwargs, up_reads,
                   up_posts>>

\* _file_to_bytes: the file is read
file_to_bytes ==
    /\ up_pc = "file_to_bytes"
    /\ up_reads' = Append(up_reads, up_kwargs["file_path"])
    /\ up_pc' = "post"
    /\ UNCHANGED <<fetchVars, tfVars, batchVars,
                   nameVars, dlVars, up_kind, up_kwargs, up_posts,
                   up_err>>

\* _file_to_bytes: open() raises, there is no such file
file_to_bytes_fails ==
    /\ up_pc = "file_to_bytes"
    /\ up_reads' = Append(up_reads, up_kwargs["file_path"])
    /\ up_pc' = "raised"
    /\ up_err' = "FileNotFoundError"
    /\ UNCHANGED <<fetchVars, tfVars, batchVars,
                   nameVars, dlVars, up_kind, up_kwargs, up_posts>>

\* requests.post: the document is sent, and the response returned
post ==
    /\ up_pc = "post"
    /\ up_posts' = Append(up_posts,
                          [url |-> url_upload(up_kind, up_kwargs[id_key(up_kind)]),
                           document_type |-> up_kwargs["document_type"],
                           file_name |-> up_kwargs["file_name"]])
    /\ up_pc' = "done"
    /\ UNCHANGED <<fetchVars, tfVars, batchVars,
                   nameVars, dlVars, up_kind, up_kwargs, up_reads,
                   up_err>>

\* a path is the sequence of its pieces; self.download_path as __init__ leaves it
SELF_PATH == <<SELF_DOWNLOAD_PATH>>

BatchIdle ==
    /\ bd_entry = "none"
    /\ bd_args = <<>>
    /\ bd_pc = "idle"
    /\ bd_err = None
    /\ bd_project_names = <<>>
    /\ bd_frames = <<>>
    /\ bd_core_path = <<>>
    /\ bd_download_path = <<>>
    /\ bd_i = 1
    /\ self_download_path = SELF_PATH

DocIdle == NamesIdle /\ DownloadIdle /\ UploadIdle /\ BatchIdle

(***************************************************************************)
(* DataTransformer: consolidation (data_transformer.py)                    *)
(***************************************************************************)
col(name) == <<name>>
REL_PROPERTY == <<"relationships", "property", "data", "id">>
REL_PROJECT == <<"relationships", "project", "data", "id">>

\* all(col in df.columns for col in required)
has_columns(df, required) == \A i \in 1..Len(required) : required[i] \in df.cols

\* df[required]: the listed columns alone
select(df, required) ==
    [cols |-> Range(required),
     rows |-> [i \in 1..Len(df.rows) |-> Project(df.rows[i], Range(required))]]

\* mutant of merge: how="left", a left row without a match is kept, with NaN
merge_left(left, right, on) ==
    LET cs == left.cols \cup right.cols
        matches(i) == SelectSeq(right.rows, LAMBDA r : r[on] = left.rows[i][on])
        joined(i) == IF matches(i) = <<>>
                     THEN <<Widen(left.rows[i], cs)>>
                     ELSE [j \in 1..Len(matches(i)) |-> left.rows[i] @@ matches(i)[j]]
    IN [cols |-> cs, rows |-> Flat([i \in 1..Len(left.rows) |-> joined(i)])]

\* pd.merge(left, right, on=on): the inner join, one row per pair of a left and a
\* right row with equal keys (pandas takes two NaN keys for equal)
merge(left, right, on) ==
    LET matches(i) == SelectSeq(right.rows, LAMBDA r : r[on] = left.rows[i][on])
        joined(i) == [j \in 1..Len(matches(i)) |-> left.rows[i] @@ matches(i)[j]]
    IN [cols |-> left.cols \cup right.cols,
        rows |-> Flat([i \in 1..Len(left.rows) |-> joined(i)])]

\* mutant of drop_duplicates: the repeated rows stay
drop_duplicates_skipped(df) == df

\* df.drop_duplicates(): the first of every group of equal rows is kept
drop_duplicates(df) ==
    LET firsts == {i \in 1..Len(df.rows) : \A j \in 1..(i - 1) : df.rows[j] # df.rows[i]}
        keep == SelectSeq([i \in 1..Len(df.rows) |-> i], LAMBDA i : i \in firsts)
    IN [cols |-> df.cols, rows |-> [k \in 1..Len(keep) |-> df.rows[keep[k]]]]

\* df.reset_index(drop=True): the rows are numbered anew, which a sequence is
reset_index(df) == df

required_keys == <<"properties", "projects", "contract_units", "contracts", "contractors">>

properties_columns == <<col("id"), col("name")>>
projects_columns == <<col("id"), col("name"), REL_PROPERTY>>
contract_units_columns == <<col("id"), col("name"), REL_PROJECT>>
contracts_columns ==
    <<col("id"), col("name"), col("contract_number"), col("contract_unit"), col("contractor")>>
contractors_columns == <<col("id"), col("name")>>

\* the required columns of the table under a key
columns_of(key) ==
    CASE key = "properties" -> properties_columns
      [] key = "projects" -> projects_columns
      [] key = "contract_units" -> contract_units_columns
      [] key = "contracts" -> contracts_columns
      [] key = "contractors" -> contractors_columns

properties_rename ==
    (col("id") :> col("property_id")) @@ (col("name") :> col("property_name"))
projects_rename ==
    (col("id") :> col("project_id")) @@ (col("name") :> col("project_name"))
        @@ (REL_PROPERTY :> col("property_id"))
contract_units_rename ==
    (col("id") :> col("contract_unit_id")) @@ (col("name") :> col("contract_unit_name"))
        @@ (REL_PROJECT :> col("project_id"))

\* mutant of contracts_rename: the two foreign keys of a contract are swapped
contracts_rename_swapped ==
    (col("id") :> col("contract_id")) @@ (col("name") :> col("contract_name"))
        @@ (col("contract_unit") :> col("contractor_id"))
        @@ (col("contractor") :> col("contract_unit_id"))

contracts_rename ==
    (col("id") :> col("contract_id")) @@ (col("name") :> col("contract_name"))
        @@ (col("contract_unit") :> col("contract_unit_id"))
        @@ (col("contractor") :> col("contractor_id"))
contractors_rename ==
    (col("id") :> col("contractor_id")) @@ (col("name") :> col("contractor_name"))

\* line 107: raise KeyError(f"'{key}' key not found in the input dictionary")
key_missing(key) == Raise("KeyError", <<"'", key, "' key not found in the input dictionary">>)

\* lines 118, 125, ...: raise KeyError("Required columns missing in '<key>' DataFrame")
columns_missing(key) ==
    Raise("KeyError", <<"Required columns missing in '", key, "' DataFrame">>)

\* DataTransformer.consolidate_core_DataFrames
consolidate_core_DataFrames(dfs_arg) ==
    LET absent == {i \in 1..Len(required_keys) : required_keys[i] \notin DOMAIN dfs_arg}
        properties_df == dfs_arg["properties"]
        projects_df == dfs_arg["projects"]
        contract_units_df == dfs_arg["contract_units"]
        contracts_df == dfs_arg["contracts"]
        contractors_df == dfs_arg["contractors"]
        core1 == rename(select(properties_df, properties_columns), properties_rename)
        core2 == merge(core1,
                       rename(select(projects_df, projects_columns), projects_rename),
                       col("property_id"))
        core3 == merge(core2,
                       rename(select(contract_units_df, contract_units_columns),
                              contract_units_rename),
                       col("project_id"))
        core4 == merge(core3,
                       rename(select(contracts_df, contracts_columns), contracts_rename),
                       col("contract_unit_id"))
        core5 == merge(core4,
                       rename(select(contractors_df, contractors_columns),
                              contractors_rename),
                       col("contractor_id"))
    IN IF absent # {}
       THEN key_missing(required_keys[CHOOSE i \in absent : \A j \in absent : i <= j])
       ELSE IF ~has_columns(properties_df, properties_columns)
       THEN columns_missing("properties")
       ELSE IF ~has_columns(projects_df, projects_columns)
       THEN columns_missing("projects")
       ELSE IF ~has_columns(contract_units_df, contract_units_columns)
       THEN columns_missing("contract_units")
       ELSE IF ~has_columns(contracts_df, contracts_columns)
       THEN columns_missing("contracts")
       ELSE IF ~has_columns(contractors_df, contractors_columns)
       THEN columns_missing("contractors")
       ELSE Return(reset_index(drop_duplicates(core5)))

invoices_columns == <<col("id"), col("contract"), col("external_identifier")>>
change_orders_columns == <<col("id"), col("contract"), col("name"), col("identifier")>>

\* mutant of invoices_rename: the invoice's own id is taken for its contract
invoices_rename_swapped ==
    (col("id") :> col("contract_id")) @@ (col("contract") :> col("invoice_id"))
        @@ (col("external_identifier") :> col("invoice_number"))

invoices_rename ==
    (col("id") :> col("invoice_id")) @@ (col("contract") :> col("contract_id"))
        @@ (col("external_identifier") :> col("invoice_number"))
change_orders_rename ==
    (col("id") :> col("change_order_id")) @@ (col("contract") :> col("contract_id"))
        @@ (col("name") :> col("change_order_name"))
        @@ (col("identifier") :> col("change_order_identifier"))

\* a column name as text: its segments with dots between them
RECURSIVE dotted(_)
dotted(name) ==
    IF Len(name) <= 1 THEN name ELSE <<Head(name), ".">> \o dotted(Tail(name))

\* lines 189-190, 217-218: the KeyError that lists the missing columns
columns_missing_listed(name, df, required) ==
    LET missing_cols == SelectSeq(required, LAMBDA c : c \notin df.cols)
    IN Raise("KeyError",
             <<"Required columns missing in '", name, "' DataFrame: ">>
                 \o Flat([i \in 1..Len(missing_cols) |-> dotted(missing_cols[i])]))

\* DataTransformer.consolidate_invoices_DataFrame
consolidate_invoices_DataFrame(df_core, df_invoices) ==
    IF ~has_columns(df_invoices, invoices_columns)
    THEN columns_missing_listed("df_invoices", df_invoices, invoices_columns)
    ELSE LET df_invoices_copy == rename(select(df_invoices, invoices_columns),
                                        invoices_rename)
             df_merged == merge(df_core, df_invoices_copy, col("contract_id"))
         IN Return(reset_index(drop_duplicates(df_merged)))

\* DataTransformer.consolidate_change_orders_DataFrame
consolidate_change_orders_DataFrame(df_core, df_change_orders) ==
    IF ~has_columns(df_change_orders, change_orders_columns)
    THEN columns_missing_listed("df_change_orders", df_change_orders,
                                change_orders_columns)
    ELSE LET df_change_orders_copy == rename(select(df_change_orders,
                                                    change_orders_columns),
                                             change_orders_rename)
             df_merged == merge(df_core, df_change_orders_copy, col("contract_id"))
         IN Return(reset_index(drop_duplicates(df_merged)))

(***************************************************************************)
(* Utils.split_list (utils.py)                                             *)
(***************************************************************************)
\* mutant of chunks_of: the last, shorter chunk is left out
chunks_of_floor(input_list, size) ==
    [i \in 1..(Len(input_list) \div size) |->
        SubSeq(input_list, (i - 1) * size + 1, i * size)]

\* mutant of chunks_of: range(len(input_list) // chunk_size + 1), one chunk too
\* many when the length is a multiple of chunk_size
chunks_of_one_more(input_list, size) ==
    [i \in 1..(Len(input_list) \div size + 1) |->
        SubSeq(input_list, (i - 1) * size + 1, Min(i * size, Len(input_list)))]

\* the chunks input_list[i*chunk_size:(i+1)*chunk_size] of split_list
chunks_of(input_list, size) ==
    [i \in 1..((Len(input_list) + size - 1) \div size) |->
        SubSeq(input_list, (i - 1) * size + 1, Min(i * size, Len(input_list)))]

\* Utils.split_list: [err, val]
split_list(input_list, size) ==
    IF size <= 0
    THEN [err |-> "ValueError", val |-> <<>>]
    ELSE [err |-> None, val |-> chunks_of(input_list, size)]

(***************************************************************************)
(* The remote API: what requests.get answers                               *)
(***************************************************************************)
Vals == {"a", "b"}                                 \* values of the filtered attribute
RowIds == <<"r1", "r2", "r3", "r4", "r5", "r6">>   \* the id of the i-th row
URL == "https://api.alasco.de/v1/invoices/"
URL_CONTRACTS == "https://api.alasco.de/v1/contracts/"
DEFAULT_CHUNK_SIZE == 50   \* get_df: chunk_size: int = 50
NoArgs == [none |-> TRUE]
NoQuery == <<>>
NullUrl == [base |-> Null, query |-> NoQuery, page |-> 0]   \* links.next: null

\* the pieces of a token string between its commas
RECURSIVE SplitCommas(_)
SplitCommas(toks) ==
    IF \A i \in 1..Len(toks) : toks[i] # ","
    THEN <<toks>>
    ELSE LET i == CHOOSE k \in 1..Len(toks) :
                      toks[k] = "," /\ \A j \in 1..(k - 1) : toks[j] # ","
         IN <<SubSeq(toks, 1, i - 1)>> \o SplitCommas(SubSeq(toks, i + 1, Len(toks)))

\* the numbers of the rows of data a query selects: all of them without a
\* filter, those whose attribute is one of the listed values with one
ServerRows(data, query) ==
    LET all == [i \in 1..Len(data) |-> i]
    IN IF query = NoQuery
       THEN all
       ELSE SelectSeq(all, LAMBDA i : <<data[i]>> \in Range(SplitCommas(query[3])))

\* the raw JSON of row i
ServerRow(data, i) == (<<"id">> :> RowIds[i]) @@ (<<"attributes", "contract">> :> data[i])

\* the page a GET of url answers with: PageSize rows, links.next to the next
\* page while rows remain; an empty listing comes without links
ServerPage(data, url) ==
    LET rows == ServerRows(data, url.query)
        from == (url.page - 1) * PageSize + 1
        upto == Min(url.page * PageSize, Len(rows))
        body == [i \in 1..(IF upto < from THEN 0 ELSE upto - from + 1) |->
                    ServerRow(data, rows[from + i - 1])]
    IN IF rows = <<>>
       THEN [data |-> body]
       ELSE [data |-> body,
             links |-> [next |-> IF upto < Len(rows)
                                 THEN [url EXCEPT !.page = @ + 1] ELSE NullUrl]]

\* the pages of the chain that begins at url, in order
RECURSIVE ServerChain(_, _)
ServerChain(data, url) ==
    LET page == ServerPage(data, url)
    IN IF "links" \in DOMAIN page /\ page.links.next # NullUrl
       THEN <<page>> \o ServerChain(data, page.links.next)
       ELSE <<page>>

(***************************************************************************)
(* DataFetcher.get_json and DataFetcher.get_df (data_fetcher.py)           *)
(***************************************************************************)
NoFilter == [kind |-> "none", attribute |-> "", operation |-> "", value |-> <<>>]

\* ",".join(filter)
RECURSIVE join(_)
join(list) ==
    IF Len(list) <= 1 THEN list ELSE <<Head(list), ",">> \o join(Tail(list))

\* f"{filter}" of a tuple of strings: ('a', 'b'), ('a',), ()
RECURSIVE repr_items(_)
repr_items(t) ==
    IF t = <<>> THEN <<>>
    ELSE IF Len(t) = 1 THEN <<"'", t[1], "'">>
    ELSE <<"'", t[1], "'", ",", " ">> \o repr_items(Tail(t))

repr_tuple(t) ==
    <<"(">> \o repr_items(t) \o (IF Len(t) = 1 THEN <<",">> ELSE <<>>) \o <<")">>

\* get_json, lines 64-69: the URL of the first request
first_url(url, f) ==
    IF f.kind = "none"
    THEN [base |-> url, query |-> NoQuery, page |-> 1]
    ELSE [base |-> url,
          query |-> <<f.attribute, f.operation,
                      IF f.kind = "list" THEN join(f.value)
                      ELSE IF f.kind = "tuple" THEN repr_tuple(f.value)
                      ELSE f.value>>,
          page |-> 1]

\* mutant of next_page_url: links.next is not followed
next_page_url_ignored(response_json) == NullUrl

\* mutant of next_page_url: the link is followed without its query string
next_page_url_bare(response_json) ==
    IF "links" \in DOMAIN response_json /\ "next" \in DOMAIN response_json["links"]
          /\ response_json["links"]["next"] # NullUrl
    THEN [response_json["links"]["next"] EXCEPT !.query = NoQuery]
    ELSE NullUrl

\* response_json.get("links", {}).get("next")
next_page_url(response_json) ==
    IF "links" \in DOMAIN response_json /\ "next" \in DOMAIN response_json["links"]
    THEN response_json["links"]["next"]
    ELSE NullUrl

\* get_df, lines 126-134: is the filter split into chunks
is_chunked(f, size) == f.kind \in {"list", "tuple"} /\ Len(f.value) > size

\* get_df is entered: the filter is split into chunks, or kept whole
get_df ==
    /\ pc = "get_df"
    /\ IF is_chunked(filters, chunk_size)
       THEN LET filter_chunks == split_list(filters.value, chunk_size)
            IN IF filter_chunks.err # None
               THEN /\ pc' = "raised"
                    /\ err' = filter_chunks.err
                    /\ UNCHANGED chunks
               ELSE /\ pc' = "fetch_and_convert"
                    /\ chunks' = [i \in 1..Len(filter_chunks.val) |->
                                    [filters EXCEPT !.value = filter_chunks.val[i]]]
                    /\ UNCHANGED err
       ELSE /\ pc' = "fetch_and_convert"
            /\ chunks' = <<filters>>
            /\ UNCHANGED err
    /\ index' = 1
    /\ df_calls' = df_calls + 1
    /\ UNCHANGED <<entry, args, base_url, db, filters,
                   chunk_size, cur, first, stack, ret, dfs, requests,
                   calls, callStart, result, failed, tfVars,
                   docVars, allVars, again, split_out>>

\* fetch_and_convert calls get_json, which builds the URL of its first request
fetch_and_convert ==
    /\ pc = "fetch_and_convert"
    /\ pc' = "get"
    /\ cur' = first_url(base_url, chunks[index])
    /\ first' = cur'
    /\ calls' = calls + 1
    /\ callStart' = Len(requests)
    /\ stack' = <<>>
    /\ UNCHANGED <<entry, args, base_url, db, filters,
                   chunk_size, chunks, index, ret, dfs, requests,
                   result, err, failed, tfVars,
                   docVars, allVars,
                   df_calls, again, split_out>>

\* get_json, lines 73-85: the GET succeeds; with a next page get_json calls itself
get_ok ==
    /\ pc = "get"
    /\ LET response_json == ServerPage(db, cur)
           nextPageUrl == next_page_url(response_json)
       IN /\ requests' = Append(requests, cur)
          /\ stack' = Append(stack, response_json)
          /\ IF nextPageUrl # NullUrl
             THEN /\ cur' = nextPageUrl
                  /\ UNCHANGED <<pc, ret>>
             ELSE /\ pc' = "return"
                  /\ ret' = <<>>
                  /\ UNCHANGED cur
    /\ UNCHANGED <<entry, args, base_url, db, filters,
                   chunk_size, chunks, index, first, dfs, calls,
                   callStart, result, err, failed, tfVars,
                   docVars, allVars,
                   df_calls, again, split_out>>

\* mutant of get_fails: the exception is caught and the page skipped, the call
\* returning the pages it has
get_fails_skipped ==
    /\ pc = "get"
    /\ requests' = Append(requests, cur)
    /\ pc' = "return"
    /\ ret' = <<>>
    /\ failed' = Len(requests) + 1
    /\ UNCHANGED <<entry, args, base_url, db, filters,
                   chunk_size, chunks, index, cur, first, stack, dfs,
                   calls, callStart, result, err, tfVars, docVars, allVars,
                   df_calls, again, split_out>>

\* get_json, lines 96-104: the GET fails; every active call re-raises RuntimeError,
\* and get_df with them
get_fails ==
    /\ pc = "get"
    /\ requests' = Append(requests, cur)
    /\ stack' = <<>>
    /\ pc' = "raised"
    /\ err' = "RuntimeError"
    /\ failed' = Len(requests) + 1
    /\ UNCHANGED <<entry, args, base_url, db, filters,
                   chunk_size, chunks, index, cur, first, ret, dfs,
                   calls, callStart, result, tfVars, docVars, allVars,
                   df_calls, again, split_out>>

\* get_json, lines 78-94: a call returns [response_json] + nextPagesJSON
get_json_returns ==
    /\ pc = "return"
    /\ stack # <<>>
    /\ ret' = <<stack[Len(stack)]>> \o ret
    /\ stack' = SubSeq(stack, 1, Len(stack) - 1)
    /\ UNCHANGED <<entry, args, base_url, db, filters,
                   chunk_size, pc, chunks, index, cur, first, dfs,
                   requests, calls, callStart, result, err, failed, tfVars,
                   docVars, allVars,
                   df_calls, again, split_out>>

\* fetch_and_convert flattens the pages; get_df returns the table, or keeps it
\* and goes on to the next chunk
converted ==
    /\ pc = "return"
    /\ stack = <<>>
    /\ LET df == convert_list_JSON_to_DataFrame(ret)
       IN IF df.err # NoError
          THEN /\ pc' = "raised"
               /\ err' = df.err.type
               /\ UNCHANGED <<dfs, index, result>>
          ELSE IF is_chunked(filters, chunk_size)
          THEN /\ dfs' = Append(dfs, df.df)
               /\ index' = index + 1
               /\ pc' = IF index < Len(chunks) THEN "fetch_and_convert" ELSE "concat"
               /\ UNCHANGED <<result, err>>
          ELSE /\ result' = df.df
               /\ pc' = "done"
               /\ UNCHANGED <<dfs, index, err>>
    /\ UNCHANGED <<entry, args, base_url, db, filters,
                   chunk_size, chunks, cur, first, stack, ret,
                   requests, calls, callStart, failed, tfVars,
                   docVars, allVars,
                   df_calls, again, split_out>>

\* mutant of concat_chunks: the tables are concatenated last chunk first
concat_chunks_reversed ==
    /\ pc = "concat"
    /\ result' = concat([i \in 1..Len(dfs) |-> dfs[Len(dfs) + 1 - i]])
    /\ pc' = "done"
    /\ UNCHANGED <<entry, args, base_url, db, filters,
                   chunk_size, chunks, index, cur, first, stack, ret,
                   dfs, requests, calls, callStart, err, failed, tfVars,
                   docVars, allVars, df_calls, again, split_out>>

\* get_df, line 145: return pd.concat(dfs, ignore_index=True)
concat_chunks ==
    /\ pc = "concat"
    /\ result' = concat(dfs)
    /\ pc' = "done"
    /\ UNCHANGED <<entry, args, base_url, db, filters,
                   chunk_size, chunks, index, cur, first, stack, ret,
                   dfs, requests, calls, callStart, err, failed, tfVars,
                   docVars, allVars,
                   df_calls, again, split_out>>

\* an optional argument: not given (None), or given with a value
NotGiven == [given |-> FALSE, value |-> <<>>]
Given(value) == [given |-> TRUE, value |-> value]

\* mutant of conflicting: the check is left out
conflicting_unchecked(a) == FALSE

\* get_contracts, lines 284-286: more than one optional parameter is not None
conflicting(a) == Cardinality({p \in DOMAIN a : a[p].given}) > 1

\* get_contracts, lines 288-313: the filter of the parameter that is given
contracts_filters(a) ==
    IF a.contract_number.given
    THEN [kind |-> "scalar", attribute |-> "contract_number", operation |-> "exact",
          value |-> a.contract_number.value]
    ELSE IF a.cost_center.given
    THEN [kind |-> "scalar", attribute |-> "cost_center", operation |-> "exact",
          value |-> a.cost_center.value]
    ELSE IF a.contract_ids.given
    THEN [kind |-> "list", attribute |-> "id", operation |-> "in",
          value |-> a.contract_ids.value]
    ELSE IF a.contractor_ids.given
    THEN [kind |-> "list", attribute |-> "contractor", operation |-> "in",
          value |-> a.contractor_ids.value]
    ELSE IF a.contract_unit_ids.given
    THEN [kind |-> "list", attribute |-> "contract_unit", operation |-> "in",
          value |-> a.contract_unit_ids.value]
    ELSE NoFilter

\* DataFetcher.get_contracts: raises, or calls get_df with the filter
get_contracts ==
    /\ pc = "get_contracts"
    /\ IF conflicting(args)
       THEN /\ pc' = "raised"
            /\ err' = "ValueError"
            /\ UNCHANGED <<base_url, filters>>
       ELSE /\ pc' = "get_df"
            /\ base_url' = URL_CONTRACTS
            /\ filters' = contracts_filters(args)
            /\ UNCHANGED err
    /\ UNCHANGED <<entry, args, db, chunk_size, chunks, index, cur, first, stack, ret,
                   dfs, requests, calls, callStart, result, failed, tfVars, docVars, allVars,
                   df_calls, again, split_out>>

\* DataFetcher.get_contract_documents, get_change_order_documents and
\* get_invoice_documents, lines 507, 539, 571: the URL of every id is asked of
\* self.utils._prepare_url_get_<kind>_documents, which class Utils does not
\* define (utils.py, lines 7-69): the first id raises AttributeError. With no id
\* there is no URL, collection stays empty and pd.DataFrame() is returned.
get_documents ==
    /\ pc = "get_documents"
    /\ IF args.ids = <<>>
       THEN /\ pc' = "done"
            /\ result' = EmptyTable
            /\ UNCHANGED err
       ELSE /\ pc' = "raised"
            /\ err' = "AttributeError"
            /\ UNCHANGED result
    /\ UNCHANGED <<entry, args, base_url, db, filters,
                   chunk_size, chunks, index, cur, first,
                   stack, ret, dfs, requests, calls, callStart, failed, tfVars, docVars, allVars,
                   df_calls, again, split_out>>

URL_CONTRACTORS == "https://api.alasco.de/v1/contractors/"
CONTRACTOR_IDS_LIMIT == 50   \* get_contractors: if len(contractor_ids) > 50

\* get_contractors, lines 236-253: the filter of the parameter that is given
contractors_filters(a) ==
    IF a.contractor_ids.given
    THEN [kind |-> "list", attribute |-> "id", operation |-> "in",
          value |-> a.contractor_ids.value]
    ELSE IF a.contractor_name.given
    THEN [kind |-> "scalar", attribute |-> "name", operation |-> "contains",
          value |-> a.contractor_name.value]
    ELSE NoFilter

\* DataFetcher.get_contractors: with more than 50 contractor ids get_df is called
\* inside the branch of the ids (line 243), and in every case it is called at the
\* end (line 256)
get_contractors ==
    /\ pc = "get_contractors"
    /\ pc' = "get_df"
    /\ base_url' = URL_CONTRACTORS
    /\ filters' = contractors_filters(args)
    /\ again' = (/\ args.contractor_ids.given
                 /\ Len(args.contractor_ids.value) > CONTRACTOR_IDS_LIMIT)
    /\ UNCHANGED <<entry, args, db, chunk_size, chunks, index, cur, first, stack, ret,
                   dfs, requests, calls, callStart, result, err, failed, df_calls,
                   split_out, tfVars, docVars, allVars>>

\* get_contractors, line 256: the get_df call of line 243 has returned, and
\* get_df is called anew with the same arguments
get_df_again ==
    /\ pc = "done"
    /\ again
    /\ again' = FALSE
    /\ pc' = "get_df"
    /\ dfs' = <<>>
    /\ calls' = 0
    /\ result' = EmptyTable
    /\ UNCHANGED <<entry, args, base_url, db, filters, chunk_size, chunks, index, cur,
                   first, stack, ret, requests, callStart, err, failed,
                   df_calls, split_out, tfVars, docVars, allVars>>

\* no call of split_list yet
NotSplit == [err |-> "not called", val |-> <<>>]

\* Utils.split_list is called with input_list and chunk_size
call_split_list ==
    /\ pc = "split_list"
    /\ split_out' = split_list(args.input_list, args.chunk_size)
    /\ pc' = IF split_out'.err # None THEN "raised" ELSE "done"
    /\ err' = IF split_out'.err # None THEN split_out'.err ELSE err
    /\ UNCHANGED <<entry, args, base_url, db, filters, chunk_size, chunks, index, cur,
                   first, stack, ret, dfs, requests, calls, callStart, result, failed,
                   df_calls, again, tfVars, docVars, allVars>>

\* a list of contractor ids longer than the limit of get_contractors
LongIds == [i \in 1..(CONTRACTOR_IDS_LIMIT + 1) |-> IF i % 2 = 1 THEN "a" ELSE "b"]

\* the arguments of a get_contractors call
ContractorsArgs ==
    [contractor_ids : {NotGiven, Given(<<>>), Given(<<"a">>), Given(<<"b", "a">>),
                       Given(LongIds)},
     contractor_name : {NotGiven, Given(<<"a">>)}]

\* the arguments of a split_list call
SplitArgs == [input_list : SeqsUpTo(Vals, MaxLen), chunk_size : -1..MaxChunk]

\* the arguments of a get_contracts call: each of the five given or not
ContractsArgs ==
    [contract_number : {NotGiven, Given(<<"a">>)},
     cost_center : {NotGiven, Given(<<"b">>)},
     contract_ids : {NotGiven, Given(<<>>), Given(<<"a", "b">>)},
     contractor_ids : {NotGiven, Given(<<"b">>)},
     contract_unit_ids : {NotGiven, Given(<<"a">>)}]

DocumentKinds ==
    {"get_contract_documents", "get_change_order_documents", "get_invoice_documents"}

Filters ==
    {NoFilter}
    \cup {[kind |-> "scalar", attribute |-> "contract", operation |-> "exact",
           value |-> <<v>>] : v \in Vals}
    \cup {[kind |-> k, attribute |-> "contract", operation |-> "in", value |-> l] :
            k \in {"list", "tuple"}, l \in SeqsUpTo(Vals, MaxLen)}

\* no call of get_all_df is modelled
AllIdle ==
    /\ all_db = <<>>
    /\ all_args = <<>>
    /\ all_pc = "idle"
    /\ all_dfs = <<>>
    /\ all_err = None

\* no call of the transformer is modelled
TfIdle ==
    /\ arg_dfs = <<>>
    /\ arg_core = EmptyTable
    /\ arg_invoices = EmptyTable
    /\ arg_change_orders = EmptyTable
    /\ arg_pages = <<>>
    /\ arg_page = NoPage
    /\ core_out = NotCalled
    /\ invoices_out = NotCalled
    /\ change_orders_out = NotCalled
    /\ flat_out = NotCalled
    /\ page_out = NotCalled
    /\ page_again = NotCalled
    /\ self_verbose = "False"

\* a method of DataFetcher is called: get_df itself, get_contracts,
\* get_contractors, or one of get_contract_documents, get_change_order_documents
\* and get_invoice_documents; or split_list of Utils is
Init ==
    /\ db \in SeqsUpTo(Vals, MaxDb)
    /\ base_url = URL
    /\ \/ /\ entry = "get_df"
          /\ args = NoArgs
          /\ filters \in Filters
          /\ chunk_size \in -1..MaxChunk
          /\ pc = "get_df"
       \/ /\ entry = "get_contracts"
          /\ args \in ContractsArgs
          /\ filters = NoFilter
          /\ chunk_size = DEFAULT_CHUNK_SIZE
          /\ pc = "get_contracts"
       \/ /\ entry \in DocumentKinds
          /\ args \in [ids : SeqsUpTo(Vals, MaxLen)]
          /\ filters = NoFilter
          /\ chunk_size = DEFAULT_CHUNK_SIZE
          /\ pc = "get_documents"
       \/ /\ entry = "get_contractors"
          /\ args \in ContractorsArgs
          /\ filters = NoFilter
          /\ chunk_size = DEFAULT_CHUNK_SIZE
          /\ pc = "get_contractors"
       \/ /\ entry = "split_list"
          /\ args \in SplitArgs
          /\ filters = NoFilter
          /\ chunk_size = DEFAULT_CHUNK_SIZE
          /\ pc = "split_list"
    /\ chunks = <<>>
    /\ index = 1
    /\ cur = NullUrl
    /\ first = NullUrl
    /\ stack = <<>>
    /\ ret = <<>>
    /\ dfs = <<>>
    /\ requests = <<>>
    /\ calls = 0
    /\ callStart = 0
    /\ result = EmptyTable
    /\ err = None
    /\ failed = 0
    /\ df_calls = 0
    /\ again = FALSE
    /\ split_out = NotSplit
    /\ AllIdle
    /\ TfIdle
    /\ DocIdle

Next ==
    \/ get_contracts
    \/ get_documents
    \/ get_contractors
    \/ get_df_again
    \/ call_split_list
    \/ get_df
    \/ fetch_and_convert
    \/ get_ok
    \/ get_fails
    \/ get_json_returns
    \/ converted
    \/ concat_chunks

Spec == Init /\ [][Next]_vars

(***************************************************************************)
(* Claims about the fetcher                                                *)
(***************************************************************************)
Ceil(a, b) == (a + b - 1) \div b

\* the URLs of the GETs of the current top-level get_json call
CallRequests == SubSeq(requests, callStart + 1, Len(requests))

\* C1: when a top-level get_json call returns, it has issued exactly one GET per
\* page of the chain that begins at its first URL, and it returns exactly the
\* pages of that chain, first page first.
C1_PaginationComplete ==
    (pc = "return" /\ stack = <<>>) =>
        LET chain == ServerChain(db, first)
        IN /\ ret = chain
           /\ Len(CallRequests) = Len(chain)
           /\ \A i \in 1..Len(chain) : CallRequests[i] = [first EXCEPT !.page = i]

\* C1 witness: a get_json call returns a chain of three pages
C1_Witness == pc = "return" /\ stack = <<>> /\ Len(ret) = 3

\* C2 as stated: a get_df call with a list of L values and chunk_size C >= 1
\* makes exactly ceil(L/C) fetch calls.
C2_CallsCeil ==
    (pc = "done" /\ filters.kind = "list" /\ chunk_size >= 1) =>
        calls = Ceil(Len(filters.value), chunk_size)

\* C2 amended: a get_df call that returns, with a list of L >= 1 values and
\* chunk_size C >= 1, has made exactly ceil(L/C) fetch calls; with the empty
\* list it has made one.
C2_CallsCeilNonEmpty ==
    (pc = "done" /\ filters.kind = "list" /\ chunk_size >= 1) =>
        calls = IF filters.value = <<>> THEN 1
                ELSE Ceil(Len(filters.value), chunk_size)

\* C2 witness: a list of three values fetched in chunks of two, in two calls
C2_Witness ==
    /\ pc = "done" /\ filters.kind = "list"
    /\ Len(filters.value) = 3 /\ chunk_size = 2 /\ calls = 2

\* the table a single fetch with the whole filter returns
Unchunked == convert_list_JSON_to_DataFrame(ServerChain(db, first_url(URL, filters))).df

\* C3: the table get_df reassembles from the chunks of a list longer than
\* chunk_size has as many rows as a single fetch with the whole list returns.
C3_ChunkedRowCount ==
    (pc = "done" /\ filters.kind = "list" /\ Len(filters.value) > chunk_size) =>
        Len(result.rows) = Len(Unchunked.rows)

\* C4: with chunk_size <= 0 get_df issues no request, does not return, and
\* raises ValueError.
C4_ChunkSizeRejected ==
    chunk_size <= 0 =>
        /\ requests = <<>>
        /\ pc # "done"
        /\ pc = "raised" => err = "ValueError"

\* C15: once a GET of a get_df call has failed, the call has raised RuntimeError
\* and returned no table, and the failed GET is the last request issued: it is
\* not issued again and no request follows it.
C15_FailureIsFatal ==
    failed # 0 =>
        /\ pc = "raised" /\ err = "RuntimeError"
        /\ result = EmptyTable
        /\ failed = Len(requests)

\* C15 witness: the GET of the second page of the second chunk has failed
C15_Witness ==
    /\ failed # 0
    /\ calls = 2
    /\ Len(requests) - callStart = 2

\* the elements of a collection, in order, with a comma between neighbours
CommaJoined(list) ==
    [i \in 1..(2 * Len(list) - 1) |-> IF i % 2 = 1 THEN list[(i + 1) \div 2] ELSE ","]

\* C16: the first request of every top-level get_json call, for a whole filter
\* and for a chunk of one, goes to the resource URL followed by
\* ?filter[attribute.operation]=V, where V is the value itself for a scalar and
\* the comma-joined elements for a list or a tuple.
C16_FilterQuery ==
    (pc = "get" /\ Len(requests) = callStart /\ chunks[index].kind # "none") =>
        LET f == chunks[index]
        IN /\ cur.base = base_url
           /\ cur.query = <<f.attribute, f.operation,
                            IF f.kind = "scalar" THEN f.value ELSE CommaJoined(f.value)>>

\* the arguments of the get_contracts call that are given
Provided == {p \in DOMAIN args : args[p].given}

\* the query that filters on the argument p
QueryOf(p) ==
    IF p = "contract_number" THEN <<"contract_number", "exact", args[p].value>>
    ELSE IF p = "cost_center" THEN <<"cost_center", "exact", args[p].value>>
    ELSE IF p = "contract_ids" THEN <<"id", "in", CommaJoined(args[p].value)>>
    ELSE IF p = "contractor_ids" THEN <<"contractor", "in", CommaJoined(args[p].value)>>
    ELSE <<"contract_unit", "in", CommaJoined(args[p].value)>>

\* C19: get_contracts with more than one of its five arguments given issues no
\* request and raises ValueError; with at most one given it does not raise
\* ValueError, and the call that returns has made one fetch of the contracts URL,
\* every request of which is filtered on the argument given, or not filtered
\* when none is.
C19_OneFilterOnly ==
    entry = "get_contracts" =>
        /\ Cardinality(Provided) > 1 =>
              /\ requests = <<>>
              /\ pc \in {"get_contracts", "raised"}
              /\ pc = "raised" => err = "ValueError"
        /\ Cardinality(Provided) <= 1 =>
              /\ err # "ValueError"
              /\ pc = "done" => calls = 1 /\ requests # <<>>
              /\ \A i \in 1..Len(requests) :
                    /\ requests[i].base = URL_CONTRACTS
                    /\ requests[i].query =
                          IF Provided = {} THEN NoQuery
                          ELSE QueryOf(CHOOSE p \in Provided : TRUE)

\* C19 witness: get_contracts with contractor_ids alone has returned after a
\* fetch of two pages
C19_Witness ==
    /\ entry = "get_contracts"
    /\ Provided = {"contractor_ids"}
    /\ pc = "done"
    /\ Len(requests) = 2

\* the documents on the server of the entities listed, one per pair of an id of
\* the list and a row that belongs to it
ListedDocuments ==
    {d \in (1..Len(args.ids)) \X (1..Len(db)) : db[d[2]] = args.ids[d[1]]}

\* C20: get_contract_documents, get_change_order_documents and
\* get_invoice_documents raise nothing and return a table with a row for every
\* document of the entities listed: none for an empty list or when no listed
\* entity has a document.
C20_DocumentsReturned ==
    (entry \in DocumentKinds /\ pc # "get_documents") =>
        /\ pc # "raised"
        /\ pc = "done" => Len(result.rows) = Cardinality(ListedDocuments)

(***************************************************************************)
(* The consolidation: its inputs and its calls                             *)
(***************************************************************************)
\* the non-decreasing sequences of at most k numbers of 1..n
NonDecreasing(n, k) ==
    {s \in SeqsUpTo(1..n, k) : \A i \in 1..(Len(s) - 1) : s[i] <= s[i + 1]}

\* the tables of at most MaxRows rows drawn from the sequence domain; a row may
\* repeat, and the rows keep the order of domain
TablesOf(domain, cs) ==
    {[cols |-> cs, rows |-> [i \in 1..Len(s) |-> domain[s[i]]]] :
        s \in NonDecreasing(Len(domain), MaxRows)}

\* a flattened resource: its id, its type and its name
Resource(type, id, name) ==
    (col("id") :> id) @@ (col("type") :> type) @@ (col("name") :> name)
PropertyRow(id) == Resource("PROPERTY", id, "Tower")
ProjectRow(id, property) == Resource("PROJECT", id, "Fitout") @@ (REL_PROPERTY :> property)
ContractUnitRow(id, project) == Resource("CONTRACT_UNIT", id, "Shell") @@ (REL_PROJECT :> project)
ContractRow(id, unit, contractor) ==
    Resource("CONTRACT", id, "Main works") @@ (col("contract_number") :> "4711")
        @@ (col("contract_unit") :> unit) @@ (col("contractor") :> contractor)
ContractorRow(id) == Resource("CONTRACTOR", id, "ACME")
InvoiceRow(id, contract) ==
    (col("id") :> id) @@ (col("type") :> "INVOICE") @@ (col("contract") :> contract)
        @@ (col("external_identifier") :> "RE-1")
ChangeOrderRow(id, contract) ==
    Resource("CHANGE_ORDER", id, "Extra") @@ (col("contract") :> contract)
        @@ (col("identifier") :> "NT-1")

PropertyRows == <<PropertyRow("1")>>
ProjectRows == <<ProjectRow("1", "1"), ProjectRow("2", Null)>>
ContractUnitRows == <<ContractUnitRow("1", "1"), ContractUnitRow("2", "1")>>
ContractRows ==
    <<ContractRow("1", "1", "1"), ContractRow("2", "1", Null), ContractRow("3", "2", "1"),
      ContractRow("4", "1", "2")>>
ContractorRows == <<ContractorRow("1"), ContractorRow("2")>>
InvoiceRows == <<InvoiceRow("1", "1"), InvoiceRow("2", "1"), InvoiceRow("3", "3")>>
ChangeOrderRows == <<ChangeOrderRow("1", "1"), ChangeOrderRow("2", Null)>>

Columns(domain) == DOMAIN domain[1]

\* the inputs of consolidate_core_DataFrames with every key and every column
CompleteInputs ==
    {  ("properties" :> p) @@ ("projects" :> j) @@ ("contract_units" :> u)
         @@ ("contracts" :> c) @@ ("contractors" :> k) :
       p \in TablesOf(PropertyRows, Columns(PropertyRows)),
       j \in TablesOf(ProjectRows, Columns(ProjectRows)),
       u \in TablesOf(ContractUnitRows, Columns(ContractUnitRows)),
       c \in TablesOf(ContractRows, Columns(ContractRows)),
       k \in TablesOf(ContractorRows, Columns(ContractorRows))  }

\* one input of consolidate_core_DataFrames with a row in every table
FullInput ==
    ("properties" :> [cols |-> Columns(PropertyRows), rows |-> <<PropertyRows[1]>>])
      @@ ("projects" :> [cols |-> Columns(ProjectRows), rows |-> <<ProjectRows[1]>>])
      @@ ("contract_units" :>
            [cols |-> Columns(ContractUnitRows), rows |-> <<ContractUnitRows[1]>>])
      @@ ("contracts" :> [cols |-> Columns(ContractRows), rows |-> <<ContractRows[1]>>])
      @@ ("contractors" :>
            [cols |-> Columns(ContractorRows), rows |-> <<ContractorRows[1]>>])

\* what an input may lack: a key <<key>>, or a required column <<key, column>>
Elements ==
    {<<required_keys[i]>> : i \in 1..Len(required_keys)}
    \cup UNION {{<<required_keys[i], c>> : c \in Range(columns_of(required_keys[i]))} :
                  i \in 1..Len(required_keys)}

\* a table without the columns gone
WithoutColumns(df, gone) ==
    [cols |-> df.cols \ gone,
     rows |-> [i \in 1..Len(df.rows) |-> Project(df.rows[i], df.cols \ gone)]]

\* the input dfs_arg without the elements of missing
Without(dfs_arg, missing) ==
    [key \in {k \in DOMAIN dfs_arg : <<k>> \notin missing} |->
        WithoutColumns(dfs_arg[key], {c \in dfs_arg[key].cols : <<key, c>> \in missing})]

\* the inputs of consolidate_core_DataFrames that lack keys or columns
DefectiveInputs ==
    {Without(FullInput, missing) :
        missing \in {m \in SUBSET Elements : 1 <= Cardinality(m) /\ Cardinality(m) <= MaxMissing}}

\* the columns of a core table
CoreColumns ==
    {col("property_id"), col("property_name"), col("project_id"), col("project_name"),
     col("contract_unit_id"), col("contract_unit_name"), col("contract_id"),
     col("contract_name"), col("contract_number"), col("contractor_id"),
     col("contractor_name")}

\* the row of a core table made of a property, a project, a contract unit, a
\* contract and a contractor
CoreRow(p, j, u, c, k) ==
    (col("property_id") :> p[col("id")]) @@ (col("property_name") :> p[col("name")])
      @@ (col("project_id") :> j[col("id")]) @@ (col("project_name") :> j[col("name")])
      @@ (col("contract_unit_id") :> u[col("id")])
      @@ (col("contract_unit_name") :> u[col("name")])
      @@ (col("contract_id") :> c[col("id")]) @@ (col("contract_name") :> c[col("name")])
      @@ (col("contract_number") :> c[col("contract_number")])
      @@ (col("contractor_id") :> k[col("id")]) @@ (col("contractor_name") :> k[col("name")])

\* core rows a caller may pass to consolidate_invoices / change_orders_DataFrame
CoreRows ==
    <<CoreRow(PropertyRows[1], ProjectRows[1], ContractUnitRows[1], ContractRows[1],
              ContractorRows[1]),
      CoreRow(PropertyRows[1], ProjectRows[1], ContractUnitRows[2], ContractRows[3],
              ContractorRows[1])>>

\* the invoices tables: complete ones, and one without the contract column
InvoiceTables ==
    TablesOf(InvoiceRows, Columns(InvoiceRows))
    \cup {WithoutColumns([cols |-> Columns(InvoiceRows), rows |-> <<InvoiceRows[1]>>],
                         {col("contract")})}

\* the change orders tables: complete ones, one without columns at all
ChangeOrderTables ==
    TablesOf(ChangeOrderRows, Columns(ChangeOrderRows)) \cup {EmptyTable}

FetchIdle ==
    /\ entry = "none"
    /\ args = NoArgs
    /\ base_url = URL
    /\ db = <<>>
    /\ filters = NoFilter
    /\ chunk_size = 0
    /\ pc = "idle"
    /\ chunks = <<>>
    /\ index = 1
    /\ cur = NullUrl
    /\ first = NullUrl
    /\ stack = <<>>
    /\ ret = <<>>
    /\ dfs = <<>>
    /\ requests = <<>>
    /\ calls = 0
    /\ callStart = 0
    /\ result = EmptyTable
    /\ err = None
    /\ failed = 0
    /\ df_calls = 0
    /\ again = FALSE
    /\ split_out = NotSplit
    /\ AllIdle

\* a call of consolidate_core_DataFrames is to be made, or calls of
\* consolidate_invoices_DataFrame and consolidate_change_orders_DataFrame
InitConsolidate ==
    /\ FetchIdle
    /\ DocIdle
    /\ arg_pages = <<>>
    /\ arg_page = NoPage
    /\ flat_out = NotCalled
    /\ page_out = NotCalled
    /\ page_again = NotCalled
    /\ self_verbose = "False"
    /\ core_out = NotCalled
    /\ invoices_out = NotCalled
    /\ change_orders_out = NotCalled
    /\ \/ /\ arg_dfs \in CompleteInputs \cup DefectiveInputs
          /\ arg_core = EmptyTable
          /\ arg_invoices = EmptyTable
          /\ arg_change_orders = EmptyTable
       \/ /\ arg_dfs = <<>>
          /\ arg_core \in TablesOf(CoreRows, CoreColumns)
          /\ arg_invoices \in InvoiceTables
          /\ arg_change_orders \in ChangeOrderTables

CallCore ==
    /\ arg_dfs # <<>>
    /\ core_out = NotCalled
    /\ core_out' = consolidate_core_DataFrames(arg_dfs)
    /\ UNCHANGED <<fetchVars, docVars, arg_dfs, arg_core, arg_invoices, arg_change_orders,
                   arg_pages, arg_page, invoices_out, change_orders_out, flat_out,
                   page_out, page_again, self_verbose>>

\* mutant of CallInvoices: the columns of df_invoices are selected and renamed
\* in the table given (rename(..., inplace=True) on df_invoices itself)
CallInvoices_inplace ==
    /\ arg_dfs = <<>>
    /\ invoices_out = NotCalled
    /\ invoices_out' = consolidate_invoices_DataFrame(arg_core, arg_invoices)
    /\ arg_invoices' = IF has_columns(arg_invoices, invoices_columns)
                       THEN rename(select(arg_invoices, invoices_columns), invoices_rename)
                       ELSE arg_invoices
    /\ UNCHANGED <<fetchVars, docVars, arg_dfs, arg_core, arg_change_orders,
                   arg_pages, arg_page, core_out, change_orders_out, flat_out,
                   page_out, page_again, self_verbose>>

CallInvoices ==
    /\ arg_dfs = <<>>
    /\ invoices_out = NotCalled
    /\ invoices_out' = consolidate_invoices_DataFrame(arg_core, arg_invoices)
    /\ UNCHANGED <<fetchVars, docVars, arg_dfs, arg_core, arg_invoices, arg_change_orders,
                   arg_pages, arg_page, core_out, change_orders_out, flat_out,
                   page_out, page_again, self_verbose>>

CallChangeOrders ==
    /\ arg_dfs = <<>>
    /\ change_orders_out = NotCalled
    /\ change_orders_out' = consolidate_change_orders_DataFrame(arg_core, arg_change_orders)
    /\ UNCHANGED <<fetchVars, docVars, arg_dfs, arg_core, arg_invoices, arg_change_orders,
                   arg_pages, arg_page, core_out, invoices_out, flat_out, page_out,
                   page_again, self_verbose>>

NextConsolidate == CallCore \/ CallInvoices \/ CallChangeOrders

SpecConsolidate == InitConsolidate /\ [][NextConsolidate]_vars

(***************************************************************************)
(* Claims about the consolidation                                          *)
(***************************************************************************)
ID == col("id")
Rows(df) == Range(df.rows)

\* a foreign key that points at the row with this id
Linked(fk, id) == fk # Null /\ fk = id

\* the rows of the inner join Property -> Project -> ContractUnit -> Contract ->
\* Contractor of the tables of dfs_arg
InnerJoin(dfs_arg) ==
    {CoreRow(t[1], t[2], t[3], t[4], t[5]) :
        t \in {t \in Rows(dfs_arg["properties"]) \X Rows(dfs_arg["projects"])
                       \X Rows(dfs_arg["contract_units"]) \X Rows(dfs_arg["contracts"])
                       \X Rows(dfs_arg["contractors"]) :
                 /\ Linked(t[2][REL_PROPERTY], t[1][ID])
                 /\ Linked(t[3][REL_PROJECT], t[2][ID])
                 /\ Linked(t[4][col("contract_unit")], t[3][ID])
                 /\ Linked(t[4][col("contractor")], t[5][ID])}}

\* C5: the table consolidate_core_DataFrames returns has the core columns, and a
\* row for a (property, project, contract unit, contract, contractor) combination
\* if and only if every link of the chain is present in the input tables.
C5_CoreIsInnerJoin ==
    Returned(core_out) =>
        /\ core_out.df.cols = CoreColumns
        /\ Rows(core_out.df) = InnerJoin(arg_dfs)

\* C5 witness: a core table with a row is returned from an input in which a
\* contract unit has no contract and a contract has no matching contractor
C5_Witness ==
    /\ Returned(core_out)
    /\ core_out.df.rows # <<>>
    /\ \E u \in Rows(arg_dfs["contract_units"]) :
          \A c \in Rows(arg_dfs["contracts"]) : c[col("contract_unit")] # u[ID]
    /\ \E c \in Rows(arg_dfs["contracts"]) :
          /\ c[col("contractor")] # Null
          /\ \A k \in Rows(arg_dfs["contractors"]) : k[ID] # c[col("contractor")]

AbsentKeys(dfs_arg) == {k \in Range(required_keys) : k \notin DOMAIN dfs_arg}

\* the required columns the table under key lacks
AbsentColumns(dfs_arg, key) == {c \in Range(columns_of(key)) : c \notin dfs_arg[key].cols}

\* the keys of dfs_arg whose table lacks a required column
DefectiveTables(dfs_arg) ==
    {k \in Range(required_keys) \cap DOMAIN dfs_arg : AbsentColumns(dfs_arg, k) # {}}

\* the input has every key and every required column
Complete(dfs_arg) == AbsentKeys(dfs_arg) = {} /\ DefectiveTables(dfs_arg) = {}

\* C6: every row of the core table has a non-null contractor_id that is the id of
\* a row of the contractors table and the contractor of the row's contract; an
\* input with every key and column raises nothing, whatever its foreign keys.
C6_ContractorPresent ==
    /\ Returned(core_out) =>
          \A r \in Rows(core_out.df) :
              /\ r[col("contractor_id")] # Null
              /\ \E k \in Rows(arg_dfs["contractors"]) : k[ID] = r[col("contractor_id")]
              /\ \E c \in Rows(arg_dfs["contracts"]) :
                    /\ c[ID] = r[col("contract_id")]
                    /\ c[col("contractor")] = r[col("contractor_id")]
    /\ (core_out # NotCalled /\ Complete(arg_dfs)) => Returned(core_out)

\* C6 witness: a core table with a row is returned from an input that holds a
\* contract whose contractor is null
C6_Witness ==
    /\ Returned(core_out)
    /\ core_out.df.rows # <<>>
    /\ \E c \in Rows(arg_dfs["contracts"]) : c[col("contractor")] = Null

\* no two rows of the table are equal
NoRepeats(df) ==
    \A i, j \in 1..Len(df.rows) : df.rows[i] = df.rows[j] => i = j

\* C7: the tables consolidate_core_DataFrames, consolidate_invoices_DataFrame and
\* consolidate_change_orders_DataFrame return hold no two equal rows.
C7_NoDuplicateRows ==
    /\ Returned(core_out) => NoRepeats(core_out.df)
    /\ Returned(invoices_out) => NoRepeats(invoices_out.df)
    /\ Returned(change_orders_out) => NoRepeats(change_orders_out.df)

\* C7 witness: the joined views are returned, with rows, from a core table and
\* an invoices table that both repeat a row
C7_Witness ==
    /\ Returned(invoices_out) /\ invoices_out.df.rows # <<>>
    /\ Returned(change_orders_out) /\ change_orders_out.df.rows # <<>>
    /\ ~NoRepeats(arg_core)
    /\ ~NoRepeats(arg_invoices)

\* the text occurs in the message
Mentions(message, text) ==
    \E i \in 1..(Len(message) - Len(text) + 1) :
        SubSeq(message, i, i + Len(text) - 1) = text

\* C8: consolidate_core_DataFrames raises whenever a key or a required
\* column is absent, and the error names an absent key, respectively an absent
\* column.
C8_ErrorNamesKeyOrColumn ==
    core_out # NotCalled =>
        /\ AbsentKeys(arg_dfs) # {} =>
              /\ Raised(core_out)
              /\ \E k \in AbsentKeys(arg_dfs) : Mentions(core_out.err.message, <<k>>)
        /\ (AbsentKeys(arg_dfs) = {} /\ DefectiveTables(arg_dfs) # {}) =>
              /\ Raised(core_out)
              /\ \E k \in DefectiveTables(arg_dfs) :
                    \E c \in AbsentColumns(arg_dfs, k) :
                        Mentions(core_out.err.message, dotted(c))

\* the rows of the inner join of df_core with the rows of the other table on
\* contract_id; renamed[r] holds the columns the row r of the other table adds
JoinedRows(df_core, other, renamed) ==
    {t[1] @@ renamed[t[2]] :
        t \in {t \in Rows(df_core) \X Rows(other) :
                 Linked(t[2][col("contract")], t[1][col("contract_id")])}}

InvoiceColumns(v) ==
    (col("invoice_id") :> v[ID]) @@ (col("invoice_number") :> v[col("external_identifier")])
ChangeOrderColumns(o) ==
    (col("change_order_id") :> o[ID]) @@ (col("change_order_name") :> o[col("name")])
        @@ (col("change_order_identifier") :> o[col("identifier")])

\* C9: the table consolidate_invoices_DataFrame (consolidate_change_orders_DataFrame)
\* returns has exactly one row per pair of a core row and an invoice (change
\* order) with equal contract_id, and so none for a contract without one.
C9_JoinedIsInnerJoin ==
    /\ Returned(invoices_out) =>
          /\ Rows(invoices_out.df) = JoinedRows(arg_core, arg_invoices,
                                               [v \in Rows(arg_invoices) |-> InvoiceColumns(v)])
          /\ Len(invoices_out.df.rows) = Cardinality(Rows(invoices_out.df))
    /\ Returned(change_orders_out) =>
          /\ Rows(change_orders_out.df) =
                JoinedRows(arg_core, arg_change_orders,
                           [o \in Rows(arg_change_orders) |-> ChangeOrderColumns(o)])
          /\ Len(change_orders_out.df.rows) = Cardinality(Rows(change_orders_out.df))

\* C9 witness: the invoices view is returned with two rows from a core table in
\* which a contract has no invoice, and the change orders view with a row
C9_Witness ==
    /\ Returned(invoices_out) /\ Len(invoices_out.df.rows) = 2
    /\ \E c \in Rows(arg_core) :
          \A v \in Rows(arg_invoices) : v[col("contract")] # c[col("contract_id")]
    /\ Returned(change_orders_out) /\ change_orders_out.df.rows # <<>>

(***************************************************************************)
(* The flattening: its inputs and its calls                                *)
(***************************************************************************)
\* the elements of data of a raw page: a resource with a name, one whose name is
\* null, and one with a field the others lack, the attribute note of a related
\* resource
RawRows ==
    <<(col("id") :> "1") @@ (<<"attributes", "name">> :> "Tower"),
      (col("id") :> "2") @@ (<<"attributes", "name">> :> Null),
      (col("id") :> "3") @@ (<<"attributes", "name">> :> Null)
          @@ (<<"relationships", "contract", "attributes", "note">> :> "x")>>

\* the raw pages: pages with at most MaxPageRows rows of data, and one without data
RawPages ==
    {[data |-> [i \in 1..Len(s) |-> RawRows[s[i]]]] :
        s \in NonDecreasing(Len(RawRows), MaxPageRows)}
    \cup {[links |-> [next |-> NullUrl]]}

InitFlatten ==
    /\ FetchIdle
    /\ DocIdle
    /\ arg_dfs = <<>>
    /\ arg_core = EmptyTable
    /\ arg_invoices = EmptyTable
    /\ arg_change_orders = EmptyTable
    /\ core_out = NotCalled
    /\ invoices_out = NotCalled
    /\ change_orders_out = NotCalled
    /\ arg_pages \in SeqsUpTo(RawPages, MaxPages)
    /\ arg_page = NoPage
    /\ flat_out = NotCalled
    /\ page_out = NotCalled
    /\ page_again = NotCalled
    /\ self_verbose \in {"False", "True"}

\* convert_list_JSON_to_DataFrame is called with the pages
CallConvertList ==
    /\ flat_out = NotCalled
    /\ page_out = NotCalled
    /\ flat_out' = convert_list_JSON_to_DataFrame(arg_pages)
    /\ UNCHANGED <<fetchVars, docVars, arg_dfs, arg_core, arg_invoices, arg_change_orders,
                   arg_pages, arg_page, core_out, invoices_out, change_orders_out,
                   page_out, page_again, self_verbose>>

\* the verbose argument of convert_JSON_to_DataFrame: None, or a flag
VerboseArgs == {None, "False", "True"}

\* mutant of CallConvert: the call takes the data out of the page it is given
\* (JSONdata.pop("data") in place of JSONdata["data"])
CallConvert_consuming ==
    /\ flat_out = NotCalled
    /\ page_out = NotCalled
    /\ \E i \in 1..Len(arg_pages), verbose \in VerboseArgs :
          /\ arg_page' = [k \in DOMAIN arg_pages[i] \ {"data"} |-> arg_pages[i][k]]
          /\ page_out' = convert_JSON_to_DataFrame(arg_pages[i])
          /\ self_verbose' = IF verbose # None THEN verbose ELSE self_verbose
    /\ UNCHANGED <<fetchVars, docVars, arg_dfs, arg_core, arg_invoices, arg_change_orders,
                   arg_pages, core_out, invoices_out, change_orders_out, flat_out,
                   page_again>>

\* convert_JSON_to_DataFrame is called with one of the pages: the call sets
\* self.verbose when it is given the flag, and builds its table from the page
CallConvert ==
    /\ flat_out = NotCalled
    /\ page_out = NotCalled
    /\ \E i \in 1..Len(arg_pages), verbose \in VerboseArgs :
          /\ arg_page' = arg_pages[i]
          /\ page_out' = convert_JSON_to_DataFrame(arg_pages[i])
          /\ self_verbose' = IF verbose # None THEN verbose ELSE self_verbose
    /\ UNCHANGED <<fetchVars, docVars, arg_dfs, arg_core, arg_invoices, arg_change_orders,
                   arg_pages, core_out, invoices_out, change_orders_out, flat_out,
                   page_again>>

\* convert_JSON_to_DataFrame is called a second time, with the page the first
\* call was given, as the first call left it
CallConvertAgain ==
    /\ page_out # NotCalled
    /\ page_again = NotCalled
    /\ \E verbose \in VerboseArgs :
          /\ page_again' = convert_JSON_to_DataFrame(arg_page)
          /\ self_verbose' = IF verbose # None THEN verbose ELSE self_verbose
    /\ UNCHANGED <<fetchVars, docVars, arg_dfs, arg_core, arg_invoices, arg_change_orders,
                   arg_pages, arg_page, core_out, invoices_out, change_orders_out, flat_out,
                   page_out>>

NextFlatten == CallConvertList \/ CallConvert \/ CallConvertAgain

SpecFlatten == InitFlatten /\ [][NextFlatten]_vars

(***************************************************************************)
(* Claims about the flattening                                             *)
(***************************************************************************)
HasData(page) == "data" \in DOMAIN page

\* C10: convert_JSON_to_DataFrame raises KeyError for a page without a data key;
\* convert_list_JSON_to_DataFrame raises it, and returns no table, when one of
\* its pages has no data key.
C10_MissingDataFails ==
    /\ (page_out # NotCalled /\ ~HasData(arg_page)) =>
          /\ Raised(page_out) /\ page_out.err.type = "KeyError"
    /\ (flat_out # NotCalled /\ \E i \in 1..Len(arg_pages) : ~HasData(arg_pages[i])) =>
          /\ Raised(flat_out) /\ flat_out.err.type = "KeyError"
          /\ ~Returned(flat_out)

\* C10 witness: convert_list_JSON_to_DataFrame has raised for two pages of which
\* the first has rows and the second has no data key
C10_Witness ==
    /\ Raised(flat_out)
    /\ Len(arg_pages) = 2
    /\ HasData(arg_pages[1]) /\ arg_pages[1].data # <<>>
    /\ ~HasData(arg_pages[2])

\* C11: convert_list_JSON_to_DataFrame returns the table without rows and without
\* columns when it is given no page, and when every page it is given has no row.
C11_NoRowsEmptyTable ==
    (/\ flat_out # NotCalled
     /\ \A i \in 1..Len(arg_pages) : HasData(arg_pages[i]) /\ arg_pages[i].data = <<>>)
        => /\ Returned(flat_out)
           /\ flat_out.df.rows = <<>>
           /\ flat_out.df.cols = {}

\* C11 witness: the call has returned for two pages without rows
C11_Witness ==
    /\ Returned(flat_out)
    /\ Len(arg_pages) = 2
    /\ \A i \in 1..2 : HasData(arg_pages[i]) /\ arg_pages[i].data = <<>>

\* the raw names of a page that hold a non-null value in one of its rows
LiveNames(page) ==
    {n \in UNION {DOMAIN page.data[i] : i \in 1..Len(page.data)} :
        \E i \in 1..Len(page.data) : n \in DOMAIN page.data[i] /\ page.data[i][n] # Null}

\* the columns a page contributes: its live names without the attributes prefix
LiveColumns(page) == {strip_attributes(n) : n \in LiveNames(page)}

\* the rows of the pages, each with its page, in page order then row order
SourceRows(pages) ==
    Flat([p \in 1..Len(pages) |->
            [i \in 1..Len(pages[p].data) |-> [page |-> pages[p], row |-> pages[p].data[i]]]])

\* the value a source row holds in a column: null where its page lacks the
\* column or holds only nulls in it, or where the row has no such field
SourceCell(src, c) ==
    LET names == {n \in LiveNames(src.page) \cap DOMAIN src.row : strip_attributes(n) = c}
    IN IF names = {} THEN Null ELSE src.row[CHOOSE n \in names : TRUE]

\* C12: the table convert_list_JSON_to_DataFrame returns has one row per row of the
\* pages, in page order then row order; its columns are the union over the pages
\* of the columns with a non-null value in that page; every cell holds the source
\* row's value, null where the row's page lacks the column or has it all-null.
C12_RowsColumnsCells ==
    Returned(flat_out) =>
        LET src == SourceRows(arg_pages)
            df == flat_out.df
        IN /\ Len(df.rows) = Len(src)
           /\ df.cols = UNION {LiveColumns(arg_pages[p]) : p \in 1..Len(arg_pages)}
           /\ \A k \in 1..Len(src) :
                 /\ DOMAIN df.rows[k] = df.cols
                 /\ \A c \in df.cols : df.rows[k][c] = SourceCell(src[k], c)

\* C12 witness: a table of three rows and three columns is returned from a first
\* page whose only row has a null name and a second page of two rows, one of
\* which has a field no other row has
C12_Witness ==
    /\ Returned(flat_out)
    /\ Len(arg_pages) = 2
    /\ Len(arg_pages[1].data) = 1
    /\ LiveColumns(arg_pages[1]) = {col("id")}
    /\ Len(arg_pages[2].data) = 2
    /\ LiveColumns(arg_pages[2]) = {col("id"), col("name"), col("note")}
    /\ Len(flat_out.df.rows) = 3

(***************************************************************************)
(* The file names: their inputs and their calls                            *)
(***************************************************************************)
\* characters of contractor names: kept ones of every kind, and removed ones
NameChars == {"a", "Z", "7", "_", "-", "(", ")", " ", ".", "/"}

ACME_CORP == <<"A", "C", "M", "E", " ", "C", "o", "r", "p", ".">>
ContractorNames == SeqsUpTo(NameChars, MaxName) \cup {ACME_CORP, NoString}
ContractNumbers == {<<"1", "2", "3", "/", "4", "5", "6">>, <<"4", "7", "-", "1">>, NoString}
InvoiceNumbers == {<<"7", "8", "9", "/", "1", "0", "1", "1">>, NoString}
ChangeOrderIdentifiers == {<<"C", "O", "-", "7", "8", "9">>, NoString}
DocumentTypes == {CONTRACT, INVOICE, NoString}

InitNames ==
    /\ FetchIdle
    /\ TfIdle
    /\ BatchIdle
    /\ arg_row \in [contractor_name : ContractorNames, contract_number : ContractNumbers,
                    invoice_number : InvoiceNumbers,
                    change_order_identifier : ChangeOrderIdentifiers]
    /\ arg_document_type \in DocumentTypes
    /\ named = "none"
    /\ name_out = NotNamed
    /\ DownloadIdle
    /\ UploadIdle

\* _name_contract is called with the row
NameContract ==
    /\ named = "none"
    /\ named' = "contract"
    /\ name_out' = name_contract(arg_row, arg_document_type)
    /\ UNCHANGED <<fetchVars, tfVars, batchVars,
                   dlVars, upVars, arg_row,
                   arg_document_type>>

\* _name_invoice is called with the row
NameInvoice ==
    /\ named = "none"
    /\ named' = "invoice"
    /\ name_out' = name_invoice(arg_row, arg_document_type)
    /\ UNCHANGED <<fetchVars, tfVars, batchVars,
                   dlVars, upVars, arg_row,
                   arg_document_type>>

\* _name_change_order is called with the row
NameChangeOrder ==
    /\ named = "none"
    /\ named' = "change_order"
    /\ name_out' = name_change_order(arg_row, arg_document_type)
    /\ UNCHANGED <<fetchVars, tfVars, batchVars,
                   dlVars, upVars, arg_row,
                   arg_document_type>>

NextNames == NameContract \/ NameInvoice \/ NameChangeOrder

SpecNames == InitNames /\ [][NextNames]_vars

(***************************************************************************)
(* Claims about the file names                                             *)
(***************************************************************************)
\* the row and document type of the example
IsExample ==
    /\ arg_row.contractor_name = ACME_CORP
    /\ arg_row.contract_number = <<"1", "2", "3", "/", "4", "5", "6">>
    /\ arg_document_type = CONTRACT

\* C13: _name_contract applied to contractor_name "ACME Corp.", contract_number
\* "123/456" and document_type "CONTRACT" returns "ACME_Corp_123456_CONTRACT.pdf".
C13_ExampleName ==
    (named = "contract" /\ IsExample) =>
        /\ Returned(name_out)
        /\ name_out.name = <<"A", "C", "M", "E", "_", "C", "o", "r", "p", "_",
                             "1", "2", "3", "4", "5", "6", "_">> \o CONTRACT \o PDF

\* the positions of the string whose character is in the class [A-Za-z0-9_-() ]
KeptPositions(string) == {i \in 1..Len(string) : string[i] \in KeptChars}

\* the string with every character outside the class removed and the others
\* kept in order: its k-th character is the one at the k-th kept position
Stripped(string) ==
    LET kept == KeptPositions(string)
    IN [k \in 1..Cardinality(kept) |->
          string[CHOOSE i \in kept : Cardinality({j \in kept : j <= i}) = k]]

RECURSIVE Joined(_)
\* the components joined by "_"
Joined(parts) ==
    IF Len(parts) = 1 THEN parts[1]
    ELSE parts[1] \o <<"_">> \o Joined(Tail(parts))

\* the document type of the name: the one given, else the default of the kind
TypeOr(default) == IF arg_document_type = NoString THEN default ELSE arg_document_type

Links == <<"https://api.alasco.de/d/1", "https://api.alasco.de/d/2",
           "https://api.alasco.de/d/3", "https://api.alasco.de/d/4">>
FileNames == <<"a.pdf", "b.pdf", "c.pdf", "d.pdf">>

InitDownload ==
    /\ FetchIdle
    /\ TfIdle
    /\ BatchIdle
    /\ NamesIdle
    /\ UploadIdle
    /\ \E n \in 0..MaxDocs : dl_links = SubSeq(Links, 1, n)
    /\ \E n \in 0..MaxDocs : dl_names = SubSeq(FileNames, 1, n)
    /\ dl_path \in {Null, "outputs/contracts"}
    /\ dl_pc = "download_documents"
    /\ dl_i = 1
    /\ dl_requests = <<>>
    /\ dl_responses = <<>>
    /\ dl_files = <<>>
    /\ dl_err = None

NextDownload ==
    \/ download_documents
    \/ download_written
    \/ download_failed
    \/ download_raises

SpecDownload == InitDownload /\ [][NextDownload]_vars

(***************************************************************************)
(* Claims about the downloads                                              *)
(***************************************************************************)
\* the numbers of the requests made so far that did not bring the document
FailedDownloads == {k \in 1..Len(dl_responses) : dl_responses[k] # "200"}

\* C17: a download_documents call in which a download has failed does not raise,
\* and once it is over it has requested every document and written every
\* document whose download succeeded under its given name.
C17_FailureSkipped ==
    FailedDownloads # {} =>
        /\ dl_pc # "raised"
        /\ dl_pc = "done" =>
              /\ dl_requests = dl_links
              /\ dl_files = [k \in 1..Len(dl_files) |->
                    path_join(dl_path,
                        dl_names[CHOOSE i \in 1..Len(dl_links) :
                            /\ dl_responses[i] = "200"
                            /\ Cardinality({j \in 1..i : dl_responses[j] = "200"}) = k])]
              /\ Len(dl_files) = Cardinality({i \in 1..Len(dl_links) : dl_responses[i] = "200"})

(***************************************************************************)
(* The uploads: their inputs and their calls                               *)
(***************************************************************************)
UploadKinds == {"contract", "change_order", "invoice"}

\* the values a caller gives a keyword: a document type of every enumeration or
\* of none, a path, a name, an id; the empty string stands for a value left empty
KeywordValues ==
    [document_type |-> {"CONTRACT", "ATTACHMENT", "CHANGE_ORDER", "INVOICE", "INVOIC", ""},
     file_path |-> {"docs/file.pdf", ""},
     file_name |-> {"file.pdf"},
     contract_id |-> {"c-1"},
     change_order_id |-> {"o-1"},
     invoice_id |-> {"i-1", Null}]

\* the kwargs of a call: any of the keywords, each with one of its values
Kwargs ==
    UNION {{kw \in [keys -> UNION {KeywordValues[k] : k \in keys}] :
               \A k \in keys : kw[k] \in KeywordValues[k]} :
           keys \in SUBSET DOMAIN KeywordValues}

InitUpload ==
    /\ FetchIdle
    /\ TfIdle
    /\ BatchIdle
    /\ NamesIdle
    /\ DownloadIdle
    /\ up_kind \in UploadKinds
    /\ up_kwargs \in Kwargs
    /\ up_pc = "upload"
    /\ up_reads = <<>>
    /\ up_posts = <<>>
    /\ up_err = None

NextUpload == upload \/ file_to_bytes \/ file_to_bytes_fails \/ post

SpecUpload == InitUpload /\ [][NextUpload]_vars

(***************************************************************************)
(* Claims about the uploads                                                *)
(***************************************************************************)
\* the keywords the call needs
Required(kind) ==
    {"document_type", "file_path", "file_name"}
    \cup (IF kind = "contract" THEN {"contract_id"}
          ELSE IF kind = "change_order" THEN {"change_order_id"} ELSE {"invoice_id"})

\* a required keyword is not given, or given as None or as the empty string
Lacks(kwargs, kind) ==
    \E k \in Required(kind) : k \notin DOMAIN kwargs \/ kwargs[k] = Null \/ kwargs[k] = ""

\* the enumeration of the kind
Enumeration(kind) ==
    IF kind = "contract" THEN {"CONTRACT", "ATTACHMENT"}
    ELSE IF kind = "change_order" THEN document_types_change_order
    ELSE document_types_invoice

\* C18: an upload call that lacks document_type, file_path, file_name or the
\* resource id, or whose document_type is outside the enumeration of its kind,
\* reads no file and issues no POST, and raises ValueError.
C18_InvalidUploadRejected ==
    (\/ Lacks(up_kwargs, up_kind)
     \/ up_kwargs["document_type"] \notin Enumeration(up_kind)) =>
        /\ up_reads = <<>>
        /\ up_posts = <<>>
        /\ up_pc \in {"upload", "raised"}
        /\ up_pc = "raised" => up_err = "ValueError"

\* C18 witness: upload_invoice has raised for a call with every keyword whose
\* document_type is of the change-order enumeration only
C18_Witness ==
    /\ up_kind = "invoice"
    /\ up_pc = "raised"
    /\ ~Lacks(up_kwargs, up_kind)
    /\ up_kwargs["document_type"] = "CHANGE_ORDER"

CallPage(i) == ServerPage(db, CallRequests[i])

\* does the page name a next page: links is present and links.next is not null
HasNext(page) == "links" \in DOMAIN page /\ page.links.next # NullUrl

\* C23: while a top-level get_json call runs, its first request is the URL with
\* the filter of the call; every later request is exactly links.next of the page
\* before it, nothing appended; the next request, while there is one to make, is
\* links.next of the last page; and the call turns to returning only at a page
\* whose links is absent or whose links.next is null.
C23_FilterOnFirstRequestOnly ==
    pc \in {"get", "return"} =>
        LET n == Len(CallRequests)
        IN /\ n >= 1 => CallRequests[1] = first_url(base_url, chunks[index])
           /\ \A i \in 2..n :
                 /\ HasNext(CallPage(i - 1))
                 /\ CallRequests[i] = CallPage(i - 1).links.next
           /\ (pc = "get" /\ n >= 1) =>
                 HasNext(CallPage(n)) /\ cur = CallPage(n).links.next
           /\ pc = "return" => n >= 1 /\ ~HasNext(CallPage(n))

\* C23 witness: a call with a filter is returning after two requests
C23_Witness ==
    /\ pc = "return"
    /\ Len(CallRequests) = 2
    /\ CallRequests[1].query # NoQuery
    /\ CallRequests[2].query = CallRequests[1].query

\* C24: a call of split_list with chunk_size >= 1 returns; the chunks it returns,
\* put end to end, are the input list; every chunk but the last has chunk_size
\* elements, the last has between 1 and chunk_size; the empty list gives no chunk.
C24_SplitList ==
    (entry = "split_list" /\ pc # "split_list" /\ args.chunk_size >= 1) =>
        LET out == split_out.val
        IN /\ pc = "done"
           /\ Flat(out) = args.input_list
           /\ \A i \in 1..(Len(out) - 1) : Len(out[i]) = args.chunk_size
           /\ out # <<>> => Len(out[Len(out)]) \in 1..args.chunk_size
           /\ args.input_list = <<>> => out = <<>>

\* C24 witness: a list of three elements has been split into a chunk of two and
\* a chunk of one
C24_Witness ==
    /\ entry = "split_list" /\ pc = "done"
    /\ Len(args.input_list) = 3 /\ args.chunk_size = 2
    /\ Len(split_out.val) = 2
    /\ Len(split_out.val[2]) = 1

\* the pages the server holds for chunk i of the get_df call, in order
ChunkPages(i) == ServerChain(db, first_url(base_url, chunks[i]))

\* the requests of a chunked get_df call in the order claimed: chunk by chunk,
\* and within a chunk page by page
OrderedRequests ==
    Flat([i \in 1..Len(chunks) |->
            [k \in 1..Len(ChunkPages(i)) |->
                [first_url(base_url, chunks[i]) EXCEPT !.page = k]]])

\* the ids of the rows of the server's pages in chunk-then-page order
OrderedIds ==
    Flat([i \in 1..Len(chunks) |->
            Flat([k \in 1..Len(ChunkPages(i)) |->
                    [r \in 1..Len(ChunkPages(i)[k].data) |->
                        ChunkPages(i)[k].data[r][col("id")]]])])

\* the requests of the get_df calls that have returned before the one in progress
EarlierRequests == IF df_calls = 2 THEN OrderedRequests ELSE <<>>

\* C25: the requests of a chunked get_df call are, at every moment, a beginning of
\* the sequence that lists the pages of chunk 1 in page order, then those of
\* chunk 2, and so on: no request of chunk i+1 comes before the last page of
\* chunk i; when the call returns every one of them has been issued, and the rows
\* of the table are the rows of those pages in that order.
C25_ChunkThenPageOrder ==
    (is_chunked(filters, chunk_size) /\ df_calls >= 1 /\ pc # "get_df") =>
        LET expected == EarlierRequests \o OrderedRequests
        IN /\ Len(EarlierRequests) <= Len(requests)
           /\ Len(requests) <= Len(expected)
           /\ \A i \in 1..Len(requests) : requests[i] = expected[i]
           /\ pc = "done" =>
                 /\ requests = expected
                 /\ [k \in 1..Len(result.rows) |-> result.rows[k][col("id")]] = OrderedIds

\* C25 witness: a call in two chunks has returned three rows, two of them from
\* the two pages of the first chunk
C25_Witness ==
    /\ pc = "done" /\ entry = "get_df"
    /\ Len(chunks) = 2
    /\ Len(ChunkPages(1)) = 2
    /\ Len(result.rows) = 3

\* a raw name without a leading attributes segment, and unchanged without one
without_prefix(name) ==
    IF Len(name) > 1 /\ Head(name) = "attributes" THEN Tail(name) ELSE name

\* the raw names of the rows of a page
RawNames(page) == UNION {DOMAIN page.data[i] : i \in 1..Len(page.data)}

\* C26: the columns of the table convert_JSON_to_DataFrame returns are the raw
\* names of the page, those that begin with attributes. without that prefix and
\* every other name unchanged.
C26_LeadingPrefixOnly ==
    Returned(page_out) =>
        page_out.df.cols = {without_prefix(n) : n \in RawNames(arg_page)}

\* the number of fetch calls made so far: every fetch begins at the first page
FetchCalls == Cardinality({i \in 1..Len(requests) : requests[i].page = 1})

\* C27: when get_contractors returns it has called get_df once; with a list of
\* L >= 1 contractor ids it has made ceil(L/50) fetch calls; and no request has
\* been issued twice.
C27_ContractorsFetchedOnce ==
    (entry = "get_contractors" /\ pc = "done" /\ ~again) =>
        /\ df_calls = 1
        /\ (args.contractor_ids.given /\ args.contractor_ids.value # <<>>) =>
              FetchCalls = Ceil(Len(args.contractor_ids.value), DEFAULT_CHUNK_SIZE)
        /\ \A i, j \in 1..Len(requests) : requests[i] = requests[j] => i = j

(***************************************************************************)
(* DocumentDownloader: download_contracts, download_invoices,              *)
(* download_change_orders and batch_download_documents                     *)
(***************************************************************************)
EntityKinds == {"contract", "invoice", "change_order"}

\* the column of df that holds the ids: contract_id, invoice_id, change_order_id
entity_id(kind) ==
    CASE kind = "contract" -> col("contract_id")
      [] kind = "invoice" -> col("invoice_id")
      [] kind = "change_order" -> col("change_order_id")

\* the names the columns of the document table are given
links_rename(kind) ==
    CASE kind = "contract" ->
           (col("id") :> col("contract_document_id"))
             @@ (<<"relationships", "contract", "data", "id">> :> col("contract_id"))
             @@ (<<"links", "download">> :> col("download_link"))
      [] kind = "invoice" ->
           (col("id") :> col("invoice_document_id"))
             @@ (<<"relationships", "invoice", "data", "id">> :> col("invoice_id"))
             @@ (<<"links", "download">> :> col("download_link"))
      [] kind = "change_order" ->
           (col("id") :> col("change_order_document_id"))
             @@ (<<"relationships", "change_order", "data", "id">> :> col("change_order_id"))
             @@ (<<"links", "download">> :> col("download_link"))

\* the columns selected from the renamed document table
links_columns(kind) ==
    CASE kind = "contract" ->
           <<col("contract_document_id"), col("filename"), col("contract_id"),
             col("download_link"), col("document_type")>>
      [] kind = "invoice" ->
           <<col("invoice_document_id"), col("filename"), col("invoice_id"),
             col("download_link"), col("document_type")>>
      [] kind = "change_order" ->
           <<col("change_order_document_id"), col("change_order_id"),
             col("download_link"), col("document_type"), col("filename")>>

\* DataFetcher.get_contract_documents, get_invoice_documents and
\* get_change_order_documents as the downloader calls them: pd.DataFrame() for
\* no id; with an id the URL is asked of a method class Utils does not define
document_links(ids) ==
    IF ids = <<>>
    THEN Return(EmptyTable)
    ELSE Raise("AttributeError", <<"'Utils' object has no attribute">>)

\* pd.merge(left, right, on=on, how="outer"): the inner join, then the rows of
\* left and of right without a match, with NaN in the other side's columns
merge_outer(left, right, on) ==
    LET cs == left.cols \cup right.cols
        lonely(a, b) == SelectSeq(a.rows, LAMBDA r : \A i \in 1..Len(b.rows) :
                                                        b.rows[i][on] # r[on])
        widened(rows) == [i \in 1..Len(rows) |-> Widen(rows[i], cs)]
    IN [cols |-> cs,
        rows |-> merge(left, right, on).rows \o widened(lonely(left, right))
                    \o widened(lonely(right, left))]

\* the outcome of a download_* call before it calls download_documents: the
\* exception raised, or the links, the rows the names are made from, and the
\* folder
EntityRaise(type) == [err |-> Error(type, <<>>), links |-> <<>>, rows |-> <<>>, path |-> <<>>]

\* DocumentDownloader.download_contracts, download_invoices and
\* download_change_orders, up to the call of download_documents
download_entity(df, kind, document_type, sub_folder, self_path) ==
    LET ids == drop_duplicates(select(df, <<entity_id(kind)>>))
        listed == document_links([i \in 1..Len(ids.rows) |-> ids.rows[i][entity_id(kind)]])
        renamed == rename(listed.df, links_rename(kind))
        df_merged == merge_outer(df, select(renamed, links_columns(kind)), entity_id(kind))
        kept == IF document_type.given
                THEN SelectSeq(df_merged.rows,
                               LAMBDA r : r[col("document_type")] = document_type.value)
                ELSE df_merged.rows
    IN IF entity_id(kind) \notin df.cols
       THEN EntityRaise("KeyError")
       ELSE IF Raised(listed)
       THEN EntityRaise(listed.err.type)
       ELSE IF ~has_columns(renamed, links_columns(kind))
       THEN EntityRaise("KeyError")
       ELSE [err |-> NoError,
             links |-> [i \in 1..Len(kept) |-> kept[i][col("download_link")]],
             rows |-> kept,
             path |-> IF sub_folder.given
                      THEN self_path \o <<"/", sub_folder.value>>
                      ELSE self_path]

\* an optional string that is not given (None)
NoText == [given |-> FALSE, value |-> ""]

\* the default document_type and sub_folder of the three functions
default_document_type(kind) ==
    CASE kind = "contract" -> Given("CONTRACT")
      [] kind = "invoice" -> Given("INVOICE")
      [] kind = "change_order" -> Given("CHANGE_ORDER")
default_sub_folder(kind) ==
    CASE kind = "contract" -> Given("contracts")
      [] kind = "invoice" -> Given("invoices")
      [] kind = "change_order" -> Given("change_orders")

\* one of download_contracts, download_invoices, download_change_orders is
\* called: it raises, or calls download_documents with the links and the names
call_download_entity ==
    /\ bd_pc = "download_entity"
    /\ LET out == download_entity(bd_args.df, bd_entry, bd_args.document_type,
                                  bd_args.sub_folder, self_download_path)
       IN IF out.err # NoError
          THEN /\ bd_pc' = "raised"
               /\ bd_err' = out.err.type
               /\ UNCHANGED <<dl_links, dl_names, dl_path, dl_pc>>
          ELSE /\ bd_pc' = "download_documents"
               /\ dl_links' = out.links
               /\ dl_names' = out.rows
               /\ dl_path' = out.path
               /\ dl_pc' = "download_documents"
               /\ UNCHANGED bd_err
    /\ UNCHANGED <<fetchVars, tfVars, nameVars, upVars, dl_i, dl_requests, dl_responses,
                   dl_files, dl_err, bd_entry, bd_args, bd_project_names, bd_frames,
                   bd_core_path, bd_download_path, bd_i, self_download_path>>

\* df[df["project_name"] == project_name]
project_subset(df, project_name) ==
    [cols |-> df.cols,
     rows |-> SelectSeq(df.rows, LAMBDA r : r[col("project_name")] = project_name)]

\* df_core[df_core["property_name"] == property_name]["project_name"]
\*    .drop_duplicates().tolist()
projects_of(df_core, property_name) ==
    LET own == [cols |-> df_core.cols,
                rows |-> SelectSeq(df_core.rows,
                                   LAMBDA r : r[col("property_name")] = property_name)]
        names == drop_duplicates(select(own, <<col("project_name")>>))
    IN [i \in 1..Len(names.rows) |-> names.rows[i][col("project_name")]]

\* os.path.join(download_path, project_name)
project_path(download_path, project_name) == download_path \o <<"/", project_name>>

\* batch_download_documents, lines 401-413: the arguments are checked, the
\* tables consolidated, the projects listed and the paths set aside
batch_download_documents ==
    /\ bd_pc = "batch_download_documents"
    /\ LET a == bd_args
           core == consolidate_core_DataFrames(a.dfs)
           invoices == consolidate_invoices_DataFrame(core.df, a.dfs["invoices"])
           change_orders ==
               consolidate_change_orders_DataFrame(core.df, a.dfs["change_orders"])
           raises(type) ==
               /\ bd_pc' = "raised"
               /\ bd_err' = type
               /\ UNCHANGED <<bd_project_names, bd_frames, bd_core_path, bd_download_path>>
       IN IF ~a.property_name.given /\ ~a.project_names.given
          THEN raises("ValueError")
          ELSE IF Raised(core)
          THEN raises(core.err.type)
          ELSE IF "invoices" \notin DOMAIN a.dfs
          THEN raises("KeyError")
          ELSE IF Raised(invoices)
          THEN raises(invoices.err.type)
          ELSE IF "change_orders" \notin DOMAIN a.dfs
          THEN raises("KeyError")
          ELSE IF Raised(change_orders)
          THEN raises(change_orders.err.type)
          ELSE /\ bd_pc' = "loop"
               /\ bd_frames' = [contract |-> core.df, invoice |-> invoices.df,
                                change_order |-> change_orders.df]
               /\ bd_project_names' =
                     IF a.project_names.given THEN a.project_names.value
                     ELSE projects_of(core.df, a.property_name.value)
               /\ bd_core_path' = self_download_path
               /\ bd_download_path' =
                     IF a.download_path.given THEN a.download_path.value
                     ELSE self_download_path
               /\ UNCHANGED bd_err
    /\ UNCHANGED <<fetchVars, tfVars, nameVars, dlVars, upVars, bd_entry, bd_args, bd_i,
                   self_download_path>>

\* lines 415-424: the loop takes the next project and sets self.download_path
\* to the project's folder
batch_project ==
    /\ bd_pc = "loop"
    /\ bd_i <= Len(bd_project_names)
    /\ self_download_path' = project_path(bd_download_path, bd_project_names[bd_i])
    /\ bd_pc' = "downloads"
    /\ UNCHANGED <<fetchVars, tfVars, nameVars, dlVars, upVars, bd_entry, bd_args, bd_err,
                   bd_project_names, bd_frames, bd_core_path, bd_download_path, bd_i>>

\* the outcomes of the three download_* calls made for a project, in order
project_downloads(frames, project_name, self_path) ==
    [k \in 1..3 |->
        LET kind == <<"contract", "invoice", "change_order">>[k]
        IN download_entity(project_subset(frames[kind], project_name), kind,
                           default_document_type(kind), default_sub_folder(kind),
                           self_path)]

\* lines 430-432: download_contracts, download_invoices and
\* download_change_orders are called for the project; an exception of one of
\* them ends batch_download_documents, nothing catching it
batch_downloads ==
    /\ bd_pc = "downloads"
    /\ LET outs == project_downloads(bd_frames, bd_project_names[bd_i], self_download_path)
           bad == {k \in 1..3 : outs[k].err # NoError}
       IN IF bad # {}
          THEN /\ bd_pc' = "raised"
               /\ bd_err' = outs[CHOOSE k \in bad : \A j \in bad : k <= j].err.type
               /\ UNCHANGED bd_i
          ELSE /\ bd_pc' = "loop"
               /\ bd_i' = bd_i + 1
               /\ UNCHANGED bd_err
    /\ UNCHANGED <<fetchVars, tfVars, nameVars, dlVars, upVars, bd_entry, bd_args,
                   bd_project_names, bd_frames, bd_core_path, bd_download_path,
                   self_download_path>>

\* lines 434-439: the loop is over; self.download_path is set back to core_path
batch_returns ==
    /\ bd_pc = "loop"
    /\ bd_i > Len(bd_project_names)
    /\ self_download_path' = bd_core_path
    /\ bd_pc' = "done"
    /\ UNCHANGED <<fetchVars, tfVars, nameVars, dlVars, upVars, bd_entry, bd_args, bd_err,
                   bd_project_names, bd_frames, bd_core_path, bd_download_path, bd_i>>

\* the rows of a table given to a download_* call
EntityRow(kind, id) ==
    (entity_id(kind) :> id) @@ (col("contractor_name") :> "ACME")
        @@ (col("contract_number") :> "4711") @@ (col("project_name") :> "Fitout")

\* the tables given to a download_* call: at most MaxRows rows, none too
EntityTables(kind) ==
    TablesOf(<<EntityRow(kind, "1"), EntityRow(kind, "2")>>, DOMAIN EntityRow(kind, "1"))

\* the arguments of a download_* call
EntityArgs(kind) ==
    [df : EntityTables(kind),
     document_type : {NoText, default_document_type(kind)},
     sub_folder : {NoText, default_sub_folder(kind)}]

\* the tables given to batch_download_documents: with a row in every table,
\* without a row in any, without the contractors, and without the invoices
BatchTables ==
    LET full == FullInput
                  @@ ("invoices" :> [cols |-> Columns(InvoiceRows),
                                     rows |-> <<InvoiceRows[1]>>])
                  @@ ("change_orders" :> [cols |-> Columns(ChangeOrderRows),
                                          rows |-> <<ChangeOrderRows[1]>>])
    IN {full,
        [k \in DOMAIN full |-> [cols |-> full[k].cols, rows |-> <<>>]],
        [k \in DOMAIN full \ {"contractors"} |-> full[k]],
        [k \in DOMAIN full \ {"invoices"} |-> full[k]]}

\* the arguments of a batch_download_documents call
BatchArgs ==
    [dfs : BatchTables,
     property_name : {NoText, Given("Tower"), Given("Annex")},
     project_names : {NotGiven, Given(<<>>), Given(<<"Fitout">>),
                      Given(<<"Fitout", "Shell">>)},
     download_path : {NotGiven, Given(<<"elsewhere">>)}]

InitBatch ==
    /\ FetchIdle
    /\ TfIdle
    /\ NamesIdle
    /\ DownloadIdle
    /\ UploadIdle
    /\ \/ /\ bd_entry \in EntityKinds
          /\ bd_args \in EntityArgs(bd_entry)
          /\ bd_pc = "download_entity"
       \/ /\ bd_entry = "batch"
          /\ bd_args \in BatchArgs
          /\ bd_pc = "batch_download_documents"
    /\ bd_err = None
    /\ bd_project_names = <<>>
    /\ bd_frames = <<>>
    /\ bd_core_path = <<>>
    /\ bd_download_path = <<>>
    /\ bd_i = 1
    /\ self_download_path = SELF_PATH

NextBatch ==
    \/ call_download_entity
    \/ batch_download_documents
    \/ batch_project
    \/ batch_downloads
    \/ batch_returns

SpecBatch == InitBatch /\ [][NextBatch]_vars

(***************************************************************************)
(* Claims about download_* and batch_download_documents                    *)
(***************************************************************************)
\* C28: a call of download_contracts, download_invoices or
\* download_change_orders for a table without rows, where no entity has a
\* document, completes without raising, and requests no download.
C28_NothingToDownload ==
    (bd_entry \in EntityKinds /\ bd_pc # "download_entity" /\ bd_args.df.rows = <<>>) =>
        /\ bd_pc # "raised"
        /\ dl_requests = <<>>

\* C29: once batch_download_documents has ended, by returning or by raising,
\* self.download_path is what it was before the call.
C29_PathRestored ==
    (bd_entry = "batch" /\ bd_pc \in {"done", "raised"}) =>
        self_download_path = SELF_PATH

(***************************************************************************)
(* DataFetcher.get_all_df (data_fetcher.py)                                *)
(***************************************************************************)
\* the column of a flattened row the server filters on for an attribute
filter_column(attribute) ==
    CASE attribute = "property" -> REL_PROPERTY
      [] attribute = "project" -> REL_PROJECT
      [] OTHER -> col(attribute)

\* does the server list the row for the filter: every row without a filter, the
\* rows with the name for contains (a name of the model contains a text only
\* when it is that text), the rows whose attribute is one of the values for in
listed(row, f) ==
    CASE f.kind = "none" -> TRUE
      [] f.operation = "contains" -> row[col("name")] = f.value
      [] OTHER -> \E i \in 1..Len(f.value) : row[filter_column(f.attribute)] = f.value[i]

\* get_df: the table of the rows the server lists for the filter, every page
\* followed and every chunk fetched; a column is there when one of the rows has
\* a value in it, and a listing without rows gives the table without columns
fetched(rows, f) ==
    LET got == SelectSeq(rows, LAMBDA r : listed(r, f))
    IN dropna_columns([cols |-> UNION {DOMAIN got[i] : i \in 1..Len(got)},
                       rows |-> [i \in 1..Len(got) |->
                                   Widen(got[i], UNION {DOMAIN got[j] : j \in 1..Len(got)})]])

\* Utils.get_ids: [err, val]
get_ids(df) ==
    IF col("id") \in df.cols
    THEN [err |-> None, val |-> [i \in 1..Len(df.rows) |-> df.rows[i][col("id")]]]
    ELSE [err |-> "KeyError", val |-> <<>>]

\* a filter on the values of an attribute
in_filter(attribute, values) ==
    [kind |-> "list", attribute |-> attribute, operation |-> "in", value |-> values]

\* a filter on the name
name_filter(name) ==
    [kind |-> "scalar", attribute |-> "name", operation |-> "contains", value |-> name]

\* get_properties, lines 192-203, as get_all_df calls it: property_ids is None
properties_filters(property_name) ==
    IF property_name.given THEN name_filter(property_name.value) ELSE NoFilter

\* get_projects, lines 161-172: the name, when given, goes before the property ids
projects_filters(property_ids, project_name) ==
    IF project_name.given THEN name_filter(project_name.value)
    ELSE in_filter("property", property_ids)

\* the steps of get_all_df: a table is fetched and kept under its key, or the
\* call raises
AllFetched(key, df, next) ==
    /\ all_dfs' = all_dfs @@ (key :> df)
    /\ all_pc' = next
    /\ UNCHANGED <<all_db, all_args, all_err>>
AllRaised(type) ==
    /\ all_pc' = "raised"
    /\ all_err' = type
    /\ UNCHANGED <<all_db, all_args, all_dfs>>
AllFrame ==
    UNCHANGED <<entry, args, base_url, db, filters, chunk_size, pc, chunks, index, cur,
                first, stack, ret, dfs, requests, calls, callStart, result, err, failed,
                df_calls, again, split_out, tfVars, docVars>>

\* line 450: df_properties = self.get_properties(property_name=property_name)
all_properties ==
    /\ all_pc = "properties"
    /\ AllFetched("properties",
                  fetched(all_db["properties"], properties_filters(all_args.property_name)),
                  "projects")
    /\ AllFrame

\* lines 451-454: the ids of the properties, then get_projects
all_projects ==
    /\ all_pc = "projects"
    /\ LET property_ids == get_ids(all_dfs["properties"])
       IN IF property_ids.err # None
          THEN AllRaised(property_ids.err)
          ELSE AllFetched("projects",
                          fetched(all_db["projects"],
                                  projects_filters(property_ids.val, all_args.project_name)),
                          "contract_units")
    /\ AllFrame

\* lines 455-458: the ids of the projects, then get_contract_units
all_contract_units ==
    /\ all_pc = "contract_units"
    /\ LET project_ids == get_ids(all_dfs["projects"])
       IN IF project_ids.err # None
          THEN AllRaised(project_ids.err)
          ELSE AllFetched("contract_units",
                          fetched(all_db["contract_units"],
                                  in_filter("project", project_ids.val)),
                          "contracts")
    /\ AllFrame

\* lines 459-462: the ids of the contract units, then get_contracts
all_contracts ==
    /\ all_pc = "contracts"
    /\ LET contract_unit_ids == get_ids(all_dfs["contract_units"])
       IN IF contract_unit_ids.err # None
          THEN AllRaised(contract_unit_ids.err)
          ELSE AllFetched("contracts",
                          fetched(all_db["contracts"],
                                  in_filter("contract_unit", contract_unit_ids.val)),
                          "contractors")
    /\ AllFrame

\* lines 463-471: the ids of the contracts and of their contractors, those that
\* are None left out, then get_contractors
all_contractors ==
    /\ all_pc = "contractors"
    /\ LET df_contracts == all_dfs["contracts"]
           contract_ids == get_ids(df_contracts)
           contractor_ids ==
               SelectSeq([i \in 1..Len(df_contracts.rows) |->
                             df_contracts.rows[i][col("contractor")]],
                         LAMBDA id : id # Null)
       IN IF contract_ids.err # None
          THEN AllRaised(contract_ids.err)
          ELSE IF col("contractor") \notin df_contracts.cols
          THEN AllRaised("KeyError")
          ELSE AllFetched("contractors",
                          fetched(all_db["contractors"], in_filter("id", contractor_ids)),
                          "invoices")
    /\ AllFrame

\* line 472: df_invoices = self.get_invoices(contract_ids=contract_ids)
all_invoices ==
    /\ all_pc = "invoices"
    /\ AllFetched("invoices",
                  fetched(all_db["invoices"],
                          in_filter("contract", get_ids(all_dfs["contracts"]).val)),
                  "change_orders")
    /\ AllFrame

\* lines 473-486: get_change_orders, and the tables are returned
all_change_orders ==
    /\ all_pc = "change_orders"
    /\ AllFetched("change_orders",
                  fetched(all_db["change_orders"],
                          in_filter("contract", get_ids(all_dfs["contracts"]).val)),
                  "done")
    /\ AllFrame

\* the rows the resources of the server are drawn from: two properties, two
\* projects of the same name in different properties and a third project, and
\* contract units, contracts, contractors, invoices and change orders below them
AllRows ==
    [properties |-> <<Resource("PROPERTY", "p1", "Tower"),
                      Resource("PROPERTY", "p2", "Annex")>>,
     projects |-> <<Resource("PROJECT", "j1", "Fitout") @@ (REL_PROPERTY :> "p1"),
                    Resource("PROJECT", "j2", "Fitout") @@ (REL_PROPERTY :> "p2"),
                    Resource("PROJECT", "j3", "Shell") @@ (REL_PROPERTY :> "p1")>>,
     contract_units |-> <<ContractUnitRow("u1", "j1"), ContractUnitRow("u2", "j2")>>,
     contracts |-> <<ContractRow("c1", "u1", "k1"), ContractRow("c2", "u2", Null)>>,
     contractors |-> <<ContractorRow("k1")>>,
     invoices |-> <<InvoiceRow("i1", "c1"), InvoiceRow("i2", "c2")>>,
     change_orders |-> <<ChangeOrderRow("o1", "c1")>>]

\* the rows of a sequence at the positions of a set, in order
Picked(seq, positions) ==
    LET at == SelectSeq([i \in 1..Len(seq) |-> i], LAMBDA i : i \in positions)
    IN [k \in 1..Len(at) |-> seq[at[k]]]

\* the values of a column of a sequence of rows
Values(rows, column) == {rows[i][column] : i \in 1..Len(rows)}

\* every reference of a row of the server is to a row of the server
Intact(server) ==
    /\ Values(server.projects, REL_PROPERTY) \subseteq Values(server.properties, col("id"))
    /\ Values(server.contract_units, REL_PROJECT) \subseteq Values(server.projects, col("id"))
    /\ Values(server.contracts, col("contract_unit"))
          \subseteq Values(server.contract_units, col("id"))
    /\ Values(server.contracts, col("contractor")) \ {Null}
          \subseteq Values(server.contractors, col("id"))
    /\ Values(server.invoices, col("contract")) \subseteq Values(server.contracts, col("id"))
    /\ Values(server.change_orders, col("contract"))
          \subseteq Values(server.contracts, col("id"))

\* the servers: some of the rows of every resource, every reference intact
Some(rows) == {Picked(rows, positions) : positions \in SUBSET (1..Len(rows))}
Servers ==
    {server \in [properties : Some(AllRows.properties),
                 projects : Some(AllRows.projects),
                 contract_units : Some(AllRows.contract_units),
                 contracts : Some(AllRows.contracts),
                 contractors : Some(AllRows.contractors),
                 invoices : Some(AllRows.invoices),
                 change_orders : Some(AllRows.change_orders)] : Intact(server)}

\* the arguments of a get_all_df call
AllArgs ==
    [property_name : {NoText, Given("Tower"), Given("Annex")},
     project_name : {NoText, Given("Fitout"), Given("Shell")}]

InitAll ==
    /\ entry = "none"
    /\ args = NoArgs
    /\ base_url = URL
    /\ db = <<>>
    /\ filters = NoFilter
    /\ chunk_size = 0
    /\ pc = "idle"
    /\ chunks = <<>>
    /\ index = 1
    /\ cur = NullUrl
    /\ first = NullUrl
    /\ stack = <<>>
    /\ ret = <<>>
    /\ dfs = <<>>
    /\ requests = <<>>
    /\ calls = 0
    /\ callStart = 0
    /\ result = EmptyTable
    /\ err = None
    /\ failed = 0
    /\ df_calls = 0
    /\ again = FALSE
    /\ split_out = NotSplit
    /\ TfIdle
    /\ DocIdle
    /\ all_db \in Servers
    /\ all_args \in AllArgs
    /\ all_pc = "properties"
    /\ all_dfs = <<>>
    /\ all_err = None

NextAll ==
    \/ all_properties
    \/ all_projects
    \/ all_contract_units
    \/ all_contracts
    \/ all_contractors
    \/ all_invoices
    \/ all_change_orders

SpecAll == InitAll /\ [][NextAll]_vars

\* every row of the table child refers, in column, to a row of the table parent
RefersInto(child, column, parent) ==
    child.rows # <<>> =>
        /\ column \in child.cols
        /\ col("id") \in parent.cols
        /\ Values(child.rows, column) \subseteq Values(parent.rows, col("id"))

\* C30: the tables get_all_df returns are referentially closed: every project's
\* property is in properties, every contract unit's project in projects, every
\* contract's contract unit in contract_units, and every invoice's and change
\* order's contract in contracts.
C30_ReferentiallyClosed ==
    all_pc = "done" =>
        /\ RefersInto(all_dfs["projects"], REL_PROPERTY, all_dfs["properties"])
        /\ RefersInto(all_dfs["contract_units"], REL_PROJECT, all_dfs["projects"])
        /\ RefersInto(all_dfs["contracts"], col("contract_unit"), all_dfs["contract_units"])
        /\ RefersInto(all_dfs["invoices"], col("contract"), all_dfs["contracts"])
        /\ RefersInto(all_dfs["change_orders"], col("contract"), all_dfs["contracts"])

====
